---- MODULE Spec2Model ----
(***************************************************************************)
(* A model of verbosa's configuration objects (CallSpec, ColumnConfig,     *)
(* ColumnsConfig) and of the normalization run of TabularDataNormalizer.   *)
(*                                                                         *)
(* Python values are tagged records [k |-> <type>, v |-> <payload>]:       *)
(*   int, str, pattern (re.Pattern), timestamp (pd.Timestamp), none,       *)
(*   list / tuple (payload: a sequence), set / frozenset (payload: a set), *)
(*   dict (payload: the sequence of <<key, value>> items, in insertion     *)
(*   order, keys distinct).                                                *)
(***************************************************************************)
EXTENDS Integers, Sequences, FiniteSets, TLC

VARIABLES
    cs_pc,       \* CallSpec scenario: "input", "built", "compared", "unfrozen"
    cs_method,   \* from_map argument method_name
    cs_params,   \* from_map argument params
    cs_spec,     \* the CallSpec from_map returned
    cs_variant,  \* how the second call's arguments differ from the first's
    cs_other,    \* the CallSpec the second call returned
    cs_dict      \* what cs_spec.params_to_dict() returned

VARIABLES
    cc_pc,       \* ColumnConfig scenario: "input", "constructed", "failed",
                 \* "serialized", "rebuilt"
    cc_args,     \* the arguments ColumnConfig(...) is called with
    cc_obj,      \* the ColumnConfig constructed from cc_args
    cc_data,     \* what cc_obj.to_dict() returned
    cc_back      \* ColumnConfig.from_dict(cc_obj.name, cc_data)

cs_vars == <<cs_pc, cs_method, cs_params, cs_spec, cs_variant, cs_other, cs_dict>>
cc_vars == <<cc_pc, cc_args, cc_obj, cc_data, cc_back>>

VARIABLES
    en_pc,       \* normalizer scenario: "ready", "looked", "grouped", "sorted",
                 \* "applying", "converted", "done", "raised"
    en_settings, \* autonorm_settings: a ColumnsConfig or None
    en_headers,  \* data.columns
    en_phases,   \* the steps of _autonorm_implementation entered so far
    en_plan,     \* norm_groups still to be applied
    en_applied,  \* per column name, the routine calls made on it
    en_groups,   \* the value group_by_normalization() returned
    en_key,      \* the key looked up
    en_found,    \* what settings[key] gave
    en_raw,      \* the mapping ColumnsConfig.from_dict is called with
    en_ret,      \* what the last query of the ColumnsConfig returned
    en_source    \* per column of data, the label it had in the input table

en_vars == <<en_pc, en_settings, en_headers, en_phases, en_plan, en_applied,
             en_groups, en_key, en_found, en_raw, en_ret, en_source>>

\* the table of one normalizer: the call under way, the table before the call,
\* the table after it, the configuration of a run and what the call raised
VARIABLES tb_pc, tb_call, tb_before, tb_data, tb_settings, tb_ret

tb_vars == <<tb_pc, tb_call, tb_before, tb_data, tb_settings, tb_ret>>

vars == <<cs_vars, cc_vars, en_vars, tb_vars>>

----------------------------------------------------------------------------
(* Bounds of the explored inputs *)

MaxInt == 2     \* int scalars are 1..MaxInt
MaxLen == 2     \* longest list / tuple / set literal in a parameter value
MaxSteps == 2   \* longest pipeline given as a tuple of CallSpec

----------------------------------------------------------------------------
(* Python values *)

PyNone == [k |-> "none", v |-> 0]
PyInt(n) == [k |-> "int", v |-> n]
PyStr(s) == [k |-> "str", v |-> s]
PyPattern(s) == [k |-> "pattern", v |-> s]
PyTimestamp(s) == [k |-> "timestamp", v |-> s]
PyList(q) == [k |-> "list", v |-> q]
PyTuple(q) == [k |-> "tuple", v |-> q]
PySet(S) == [k |-> "set", v |-> S]
PyFrozenset(S) == [k |-> "frozenset", v |-> S]
PyDict(items) == [k |-> "dict", v |-> items]

IsMapping(x) == x.k = "dict"
IsSequenceValue(x) == x.k \in {"list", "tuple"}

\* Python's order on str, on the strings the model uses (ascending).
StrOrder ==
    <<"Decimal('1')", "a", "b", "case", "dtype", "numeric", "p",
      "pd.Timestamp('2000-01-01')", "q", "re.Pattern('x')", "strip", "text",
      "unknown">>

StrRank(s) == CHOOSE i \in 1..Len(StrOrder) : StrOrder[i] = s

\* x < y for two keys of one sorted() call (ints by value, strs by rank).
KeyLess(x, y) ==
    IF x.k = "int" /\ y.k = "int" THEN x.v < y.v
    ELSE IF x.k = "str" /\ y.k = "str" THEN StrRank(x.v) < StrRank(y.v)
    ELSE FALSE

\* sorted(items, key=lambda kv: kv[0]) on a sequence of <<key, value>> pairs:
\* a stable sort by key.
RECURSIVE SortedByKey(_)
SortedByKey(items) ==
    IF items = <<>> THEN <<>>
    ELSE LET x == Head(items)
             rest == SortedByKey(Tail(items))
             before == {i \in 1..Len(rest) : KeyLess(rest[i][1], x[1])}
             n == Cardinality(before)
         IN SubSeq(rest, 1, n) \o <<x>> \o SubSeq(rest, n + 1, Len(rest))

\* dict(pairs): a later pair with the same key replaces the value of the
\* earlier one and keeps its position.
RECURSIVE DictItems(_)
DictItems(pairs) ==
    IF pairs = <<>> THEN <<>>
    ELSE LET n == Len(pairs)
             init == DictItems(SubSeq(pairs, 1, n - 1))
             last == pairs[n]
             hit == {i \in 1..Len(init) : init[i][1] = last[1]}
         IN IF hit = {} THEN Append(init, last)
            ELSE [i \in 1..Len(init) |-> IF i \in hit THEN last ELSE init[i]]

\* Python == on values: dicts compare without regard to insertion order.
RECURSIVE PyEq(_, _)
PyEq(x, y) ==
    IF x.k # y.k THEN FALSE
    ELSE IF x.k = "dict" THEN
        /\ Len(x.v) = Len(y.v)
        /\ \A i \in 1..Len(x.v) : \E j \in 1..Len(y.v) :
              x.v[i][1] = y.v[j][1] /\ PyEq(x.v[i][2], y.v[j][2])
    ELSE IF x.k \in {"list", "tuple"} THEN
        /\ Len(x.v) = Len(y.v)
        /\ \A i \in 1..Len(x.v) : PyEq(x.v[i], y.v[i])
    ELSE IF x.k \in {"set", "frozenset"} THEN
        /\ \A a \in x.v : \E b \in y.v : PyEq(a, b)
        /\ \A b \in y.v : \E a \in x.v : PyEq(a, b)
    ELSE x = y

----------------------------------------------------------------------------
(* column_config.py: _cast_string, _freeze, _unfreeze *)

NoMatch == <<>>

\* _CASTING_PATTERN.fullmatch(s): the (dtype, value) groups of a string of
\* the form <dtype>('<value>'), on the strings the model uses.
_CASTING_PATTERN(s) ==
    CASE s = "re.Pattern('x')" -> <<"re.Pattern", "x">>
      [] s = "pd.Timestamp('2000-01-01')" -> <<"pd.Timestamp", "2000-01-01">>
      [] s = "Decimal('1')" -> <<"Decimal", "1">>
      [] OTHER -> NoMatch

_cast_string(value) ==
    IF value.k # "str" THEN value
    ELSE LET match == _CASTING_PATTERN(value.v)
         IN IF match = NoMatch THEN value
            ELSE IF match[1] = "re.Pattern" THEN PyPattern(match[2])
            ELSE IF match[1] = "pd.Timestamp" THEN PyTimestamp(match[2])
            ELSE value

RECURSIVE _freeze(_)

\* _freeze converting a tuple but passing a list through unchanged
_freeze_tuple_only(value) ==
    IF IsMapping(value) THEN
        LET items == [i \in 1..Len(value.v) |->
                        <<value.v[i][1], _freeze(value.v[i][2])>>]
            sorted == SortedByKey(items)
        IN PyTuple([i \in 1..Len(sorted) |-> PyTuple(sorted[i])])
    ELSE IF value.k = "tuple" THEN
        PyTuple([i \in 1..Len(value.v) |-> _freeze(value.v[i])])
    ELSE IF value.k = "set" THEN
        PyFrozenset({_freeze(x) : x \in value.v})
    ELSE value

\* _freeze converting a sequence without freezing its elements
_freeze_shallow(value) ==
    IF IsMapping(value) THEN
        LET items == [i \in 1..Len(value.v) |->
                        <<value.v[i][1], _freeze(value.v[i][2])>>]
            sorted == SortedByKey(items)
        IN PyTuple([i \in 1..Len(sorted) |-> PyTuple(sorted[i])])
    ELSE IF value.k \in {"list", "tuple"} THEN PyTuple(value.v)
    ELSE IF value.k = "set" THEN
        PyFrozenset({_freeze(x) : x \in value.v})
    ELSE value

\* _freeze(value, map_sort_key); the body never uses map_sort_key: a mapping's
\* items are sorted as (key, value) tuples, that is by key.
_freeze(value) ==
    IF IsMapping(value) THEN
        LET items == [i \in 1..Len(value.v) |->
                        <<value.v[i][1], _freeze(value.v[i][2])>>]
            sorted == SortedByKey(items)
        IN PyTuple([i \in 1..Len(sorted) |-> PyTuple(sorted[i])])
    ELSE IF value.k \in {"list", "tuple"} THEN
        PyTuple([i \in 1..Len(value.v) |-> _freeze(value.v[i])])
    ELSE IF value.k = "set" THEN
        PyFrozenset({_freeze(x) : x \in value.v})
    ELSE value

IsPairTuple(item) == item.k = "tuple" /\ Len(item.v) = 2

RECURSIVE _unfreeze(_)
_unfreeze(value) ==
    IF value.k = "tuple" THEN
        IF value.v # <<>> /\ \A i \in 1..Len(value.v) : IsPairTuple(value.v[i])
        THEN PyDict(DictItems([i \in 1..Len(value.v) |->
                        <<value.v[i].v[1], _unfreeze(value.v[i].v[2])>>]))
        ELSE PyList([i \in 1..Len(value.v) |-> _unfreeze(value.v[i])])
    ELSE IF value.k = "frozenset" THEN
        PySet({_unfreeze(x) : x \in value.v})
    ELSE value

----------------------------------------------------------------------------
(* column_config.py: CallSpec *)

\* the frozen dataclass: equality and hash are those of (method_name, params)
CallSpec(method_name, params) ==
    [k |-> "CallSpec", method_name |-> method_name, params |-> params]

NoSpec == CallSpec("", PyNone)

\* from_map storing the pairs in the mapping's iteration order
from_map_unsorted(method_name, params) ==
    IF params = PyNone THEN CallSpec(method_name, PyTuple(<<>>))
    ELSE IF ~IsMapping(params) THEN CallSpec(method_name, PyTuple(<<>>))
    ELSE CallSpec(method_name,
                  PyTuple([i \in 1..Len(params.v) |->
                     PyTuple(<<params.v[i][1], _freeze(_cast_string(params.v[i][2]))>>)]))

\* CallSpec.from_map(method_name, params), with the default sort_key.
from_map(method_name, params) ==
    IF params = PyNone THEN CallSpec(method_name, PyTuple(<<>>))
    ELSE IF ~IsMapping(params) THEN CallSpec(method_name, PyTuple(<<>>))
    ELSE LET keys_and_values == [i \in 1..Len(params.v) |->
                <<params.v[i][1], _freeze(_cast_string(params.v[i][2]))>>]
             sorted == SortedByKey(keys_and_values)
         IN CallSpec(method_name,
                     PyTuple([i \in 1..Len(sorted) |-> PyTuple(sorted[i])]))

\* CallSpec.params_to_dict()
params_to_dict(spec) ==
    PyDict(DictItems([i \in 1..Len(spec.params.v) |->
              <<spec.params.v[i].v[1], _unfreeze(spec.params.v[i].v[2])>>]))

\* hash() of a hashable value: a tuple's hash depends on its elements in
\* order, a frozenset's on its elements alone.
RECURSIVE PyHash(_)
PyHash(x) ==
    IF x.k = "tuple" THEN
        LET RECURSIVE Fold(_, _)
            Fold(i, h) == IF i > Len(x.v) THEN h
                          ELSE Fold(i + 1, (h * 31 + PyHash(x.v[i])) % 65521)
        IN Fold(1, 7)
    ELSE IF x.k = "frozenset" THEN
        LET RECURSIVE Sum(_)
            Sum(S) == IF S = {} THEN 3
                      ELSE LET e == CHOOSE e \in S : TRUE
                           IN (PyHash(e) + Sum(S \ {e})) % 65521
        IN Sum(x.v)
    ELSE IF x.k = "int" THEN x.v
    ELSE IF x.k = "str" THEN 100 + StrRank(x.v)
    ELSE 1

\* The hash the frozen dataclass derives from (method_name, params).
CallSpecHash(spec) ==
    PyHash(PyTuple(<<PyStr(spec.method_name), spec.params>>))

----------------------------------------------------------------------------
(* The parameter values and mappings from_map is called with *)

SeqsUpTo(S, n) == UNION {[1..m -> S] : m \in 0..n}
SubsetsUpTo(S, n) == {T \in SUBSET S : Cardinality(T) <= n}
Range(q) == {q[i] : i \in 1..Len(q)}
Injective(q) == \A i, j \in 1..Len(q) : q[i] = q[j] => i = j
DistinctKeys(items) == \A i, j \in 1..Len(items) : items[i][1] = items[j][1] => i = j

\* The dict literals with keys in K and values in V.
DictsOver(K, V) ==
    {PyDict(items) : items \in {q \in SeqsUpTo(K \X V, Cardinality(K)) : DistinctKeys(q)}}

Ints == {PyInt(n) : n \in 1..MaxInt}
PlainStrs == {PyStr("a")}
TypedLiterals == {PyStr("re.Pattern('x')"), PyStr("Decimal('1')")}
Atoms == Ints \cup PlainStrs
DictKeys == {PyStr("a"), PyStr("b")}

FlatLists == {PyList(q) : q \in SeqsUpTo(Atoms, MaxLen)}
FlatTuples == {PyTuple(q) : q \in SeqsUpTo(Atoms, MaxLen)}
FlatSets == {PySet(S) : S \in SubsetsUpTo(Atoms, MaxLen)}
FlatDicts == DictsOver(DictKeys, Atoms)
\* lists whose elements are two-element lists
PairLists == {PyList(q) : q \in SeqsUpTo({PyList(<<a, b>>) : a, b \in Ints}, MaxLen)}
\* a mapping holding a container, a list holding a mapping
NestedDicts == {PyDict(<< <<PyStr("a"), c>> >>) : c \in FlatLists \cup FlatSets \cup FlatDicts}
MixedLists == {PyList(<<a, d>>) : a \in Ints, d \in DictsOver({PyStr("a")}, Ints)}

ParamValues ==
    Atoms \cup TypedLiterals \cup FlatLists \cup FlatTuples \cup FlatSets
    \cup FlatDicts \cup PairLists \cup NestedDicts \cup MixedLists

ParamKeys == {PyStr("p"), PyStr("q")}

ParamMappings ==
    {PyDict(<<>>)}
    \cup {PyDict(<< <<key, v>> >>) : key \in ParamKeys, v \in ParamValues}
    \cup {PyDict(<< <<kk[1], v1>>, <<kk[2], v2>> >>) :
            kk \in {x \in ParamKeys \X ParamKeys : x[1] # x[2]},
            v1 \in ParamValues, v2 \in Atoms}

\* params arguments that are no mapping
NonMappings == {PyNone, PyInt(1), PyList(<<>>)}

MethodNames == {"text", "numeric"}

----------------------------------------------------------------------------
(* CallSpec scenario: one from_map call, then either a second call on varied *)
(* arguments or params_to_dict on the result                                *)

CsInit ==
    /\ cs_pc = "input"
    /\ cs_method = "text"
    /\ cs_params \in ParamMappings \cup NonMappings
    /\ cs_spec = NoSpec
    /\ cs_variant = "none"
    /\ cs_other = NoSpec
    /\ cs_dict = PyNone

FromMapCall ==
    /\ cs_pc = "input"
    /\ cs_spec' = from_map(cs_method, cs_params)
    /\ cs_pc' = "built"
    /\ UNCHANGED <<cs_method, cs_params, cs_variant, cs_other, cs_dict>>
    /\ UNCHANGED <<cc_vars, en_vars, tb_vars>>

\* the same entries, given in another key order
Reorderings(params) ==
    {PyDict(q) : q \in {r \in [1..Len(params.v) -> Range(params.v)] :
                          Injective(r) /\ r # params.v}}

FromMapReordered ==
    /\ cs_pc = "built"
    /\ IsMapping(cs_params)
    /\ \E p2 \in Reorderings(cs_params) :
          cs_other' = from_map(cs_method, p2)
    /\ cs_variant' = "reorder"
    /\ cs_pc' = "compared"
    /\ UNCHANGED <<cs_method, cs_params, cs_spec, cs_dict>>
    /\ UNCHANGED <<cc_vars, en_vars, tb_vars>>

IsContainer(x) == x.k \in {"list", "tuple", "set"}

\* the values of container type t holding the elements of container x
Retyped(x, t) ==
    IF x.k \in {"list", "tuple"} THEN
        IF t = "set"
        THEN IF Injective(x.v) /\ Range(x.v) \subseteq Atoms
             THEN {PySet(Range(x.v))} ELSE {}
        ELSE {[k |-> t, v |-> x.v]}
    ELSE {[k |-> t, v |-> q] : q \in {r \in [1..Cardinality(x.v) -> x.v] : Injective(r)}}

WithValue(params, i, x) ==
    PyDict([j \in 1..Len(params.v) |->
              IF j = i THEN <<params.v[j][1], x>> ELSE params.v[j]])

FromMapRetyped ==
    /\ cs_pc = "built"
    /\ IsMapping(cs_params)
    /\ \E i \in 1..Len(cs_params.v) :
          /\ IsContainer(cs_params.v[i][2])
          /\ \E t \in {"list", "tuple", "set"} \ {cs_params.v[i][2].k} :
             \E x \in Retyped(cs_params.v[i][2], t) :
                /\ cs_other' = from_map(cs_method, WithValue(cs_params, i, x))
                /\ cs_variant' = IF "set" \in {t, cs_params.v[i][2].k}
                                 THEN "retype_set" ELSE "retype_seq"
    /\ cs_pc' = "compared"
    /\ UNCHANGED <<cs_method, cs_params, cs_spec, cs_dict>>
    /\ UNCHANGED <<cc_vars, en_vars, tb_vars>>

\* another method name, or another value under one key
FromMapDiffering ==
    /\ cs_pc = "built"
    /\ \/ \E m2 \in MethodNames \ {cs_method} :
             cs_other' = from_map(m2, cs_params)
       \/ /\ IsMapping(cs_params)
          /\ \E i \in 1..Len(cs_params.v) :
             \E x \in (Atoms \cup FlatSets) \ {cs_params.v[i][2]} :
                cs_other' = from_map(cs_method, WithValue(cs_params, i, x))
    /\ cs_variant' = "differ"
    /\ cs_pc' = "compared"
    /\ UNCHANGED <<cs_method, cs_params, cs_spec, cs_dict>>
    /\ UNCHANGED <<cc_vars, en_vars, tb_vars>>

ParamsToDictCall ==
    /\ cs_pc = "built"
    /\ cs_dict' = params_to_dict(cs_spec)
    /\ cs_pc' = "unfrozen"
    /\ UNCHANGED <<cs_method, cs_params, cs_spec, cs_variant, cs_other>>
    /\ UNCHANGED <<cc_vars, en_vars, tb_vars>>

CsNext ==
    \/ FromMapCall
    \/ FromMapReordered
    \/ FromMapRetyped
    \/ FromMapDiffering
    \/ ParamsToDictCall

----------------------------------------------------------------------------
(* Properties of CallSpec *)

ParamKeyAt(spec, i) == spec.params.v[i].v[1]
ParamValueAt(spec, i) == spec.params.v[i].v[2]

KeysAscending(spec) ==
    \A i \in 1..(Len(spec.params.v) - 1) :
        KeyLess(ParamKeyAt(spec, i), ParamKeyAt(spec, i + 1))

\* C4: from_map stores params as (key, value) pairs in ascending key order,
\* one pair per entry; a second call given the same entries in another key
\* order returns an equal CallSpec with an equal hash; a second call given
\* another method name, or another value under one key, returns an unequal one.
C4_CanonicalKeyOrder ==
    /\ (cs_pc # "input" /\ IsMapping(cs_params)) =>
          /\ KeysAscending(cs_spec)
          /\ Len(cs_spec.params.v) = Len(cs_params.v)
          /\ \A i \in 1..Len(cs_params.v) : \E j \in 1..Len(cs_spec.params.v) :
                ParamKeyAt(cs_spec, j) = cs_params.v[i][1]
    /\ cs_variant = "reorder" =>
          /\ cs_other = cs_spec
          /\ CallSpecHash(cs_other) = CallSpecHash(cs_spec)
    /\ cs_variant = "differ" => cs_other # cs_spec

\* two entries given in descending key order, then in ascending key order
C4_Witness ==
    /\ cs_variant = "reorder"
    /\ Len(cs_params.v) = 2
    /\ KeyLess(cs_params.v[2][1], cs_params.v[1][1])
    /\ cs_other = cs_spec

\* C5 as stated: mappings that differ only in the container type of a value
\* (list, tuple or set, equal elements) give equal CallSpecs with equal hashes.
C5_AnyContainerSameSpec ==
    cs_variant \in {"retype_seq", "retype_set"} =>
        /\ cs_other = cs_spec
        /\ CallSpecHash(cs_other) = CallSpecHash(cs_spec)

\* C5 amended: mappings that differ only in a value being a list or a tuple
\* of equal elements give equal CallSpecs with equal hashes.
C5_ListTupleSameSpec ==
    cs_variant = "retype_seq" =>
        /\ cs_other = cs_spec
        /\ CallSpecHash(cs_other) = CallSpecHash(cs_spec)

C5_Witness ==
    /\ cs_variant = "retype_seq"
    /\ \E i \in 1..Len(cs_params.v) :
          cs_params.v[i][2].k = "list" /\ Len(cs_params.v[i][2].v) = MaxLen
    /\ cs_other = cs_spec

RECURSIVE NoMutableContainer(_)
NoMutableContainer(x) ==
    /\ x.k \notin {"list", "dict", "set"}
    /\ x.k = "tuple" => \A i \in 1..Len(x.v) : NoMutableContainer(x.v[i])
    /\ x.k = "frozenset" => \A e \in x.v : NoMutableContainer(e)

\* frozen is raw with every mapping turned into a key-sorted tuple of pairs,
\* every list or tuple into a tuple and every set into a frozenset
RECURSIVE FrozenFormOf(_, _)
FrozenFormOf(frozen, raw) ==
    IF raw.k = "dict" THEN
        /\ frozen.k = "tuple"
        /\ Len(frozen.v) = Len(raw.v)
        /\ \A i \in 1..Len(frozen.v) : IsPairTuple(frozen.v[i])
        /\ \A i \in 1..(Len(frozen.v) - 1) :
              KeyLess(frozen.v[i].v[1], frozen.v[i + 1].v[1])
        /\ \A i \in 1..Len(raw.v) : \E j \in 1..Len(frozen.v) :
              /\ frozen.v[j].v[1] = raw.v[i][1]
              /\ FrozenFormOf(frozen.v[j].v[2], raw.v[i][2])
    ELSE IF raw.k \in {"list", "tuple"} THEN
        /\ frozen.k = "tuple"
        /\ Len(frozen.v) = Len(raw.v)
        /\ \A i \in 1..Len(raw.v) : FrozenFormOf(frozen.v[i], raw.v[i])
    ELSE IF raw.k = "set" THEN
        /\ frozen.k = "frozenset"
        /\ \A e \in raw.v : \E f \in frozen.v : FrozenFormOf(f, e)
        /\ \A f \in frozen.v : \E e \in raw.v : FrozenFormOf(f, e)
    ELSE frozen = raw

\* C6: at every nesting depth the params of the CallSpec from_map built hold
\* no list, dict or set; each stored value is the given value with mappings
\* as key-sorted tuples of pairs, lists and tuples as tuples, sets as
\* frozensets.
C6_ParamsFrozen ==
    cs_pc # "input" =>
        /\ NoMutableContainer(cs_spec.params)
        /\ IsMapping(cs_params) =>
              \A i \in 1..Len(cs_params.v) : \E j \in 1..Len(cs_spec.params.v) :
                 /\ ParamKeyAt(cs_spec, j) = cs_params.v[i][1]
                 /\ FrozenFormOf(ParamValueAt(cs_spec, j),
                                 _cast_string(cs_params.v[i][2]))

\* a list holding a mapping has been frozen
C6_Witness ==
    /\ cs_pc = "built"
    /\ IsMapping(cs_params)
    /\ \E i \in 1..Len(cs_params.v) : cs_params.v[i][2] \in MixedLists
    /\ NoMutableContainer(cs_spec.params)

RECURSIVE HoldsNoTuple(_)
HoldsNoTuple(x) ==
    /\ x.k # "tuple"
    /\ x.k = "list" => \A i \in 1..Len(x.v) : HoldsNoTuple(x.v[i])
    /\ x.k = "set" => \A e \in x.v : HoldsNoTuple(e)
    /\ x.k = "dict" => \A i \in 1..Len(x.v) : HoldsNoTuple(x.v[i][2])

\* C7: for a mapping P built from scalars, lists, mappings and sets (no typed
\* literal string among its values), from_map(m, P).params_to_dict() equals P.
C7_ParamsToDictInvertsFreeze ==
    ( /\ cs_pc = "unfrozen"
      /\ IsMapping(cs_params)
      /\ HoldsNoTuple(cs_params)
      /\ \A i \in 1..Len(cs_params.v) : cs_params.v[i][2] \notin TypedLiterals )
    => PyEq(cs_dict, cs_params)

----------------------------------------------------------------------------
(* column_config.py: ColumnConfig *)

TypeError == [k |-> "TypeError", v |-> 0]

IsCallSpecTuple(value) ==
    /\ value.k = "tuple"
    /\ \A i \in 1..Len(value.v) : value.v[i].k = "CallSpec"

\* _parse_pipeline returning every tuple as already parsed
_parse_pipeline_any_tuple(value) ==
    IF value = PyNone THEN PyNone
    ELSE IF value.k = "tuple" THEN value
    ELSE IF value.k = "str" THEN PyTuple(<<from_map(value.v, PyNone)>>)
    ELSE IF IsMapping(value) THEN
        PyTuple([i \in 1..Len(value.v) |-> from_map(value.v[i][1].v, value.v[i][2])])
    ELSE TypeError

\* ColumnConfig._parse_pipeline(value): the pipeline, or TypeError when it raises
_parse_pipeline(value) ==
    IF value = PyNone THEN PyNone
    ELSE IF IsCallSpecTuple(value) THEN value
    ELSE IF value.k = "str" THEN PyTuple(<<from_map(value.v, PyNone)>>)
    ELSE IF IsMapping(value) THEN
        PyTuple([i \in 1..Len(value.v) |-> from_map(value.v[i][1].v, value.v[i][2])])
    ELSE TypeError

\* iterating a str yields its characters (the model's multi-character
\* na_values string is "NA"; every other one iterated has one character)
StrChars(s) == IF s = "NA" THEN <<"N", "A">> ELSE <<s>>

\* __post_init__ step 1: aliases as a set that includes name
PostInitAliases(aliases, name) ==
    LET given == IF aliases.k = "str" THEN {aliases}
                 ELSE IF aliases.k \in {"list", "tuple"} THEN {aliases.v[i] : i \in 1..Len(aliases.v)}
                 ELSE {}
    IN PySet(given \cup {name})

\* __post_init__ step 2: na_values as a tuple of cast values (a str is a Sequence)
PostInitNaValues(na_values) ==
    IF na_values.k = "str" THEN
        LET chars == StrChars(na_values.v)
        IN PyTuple([i \in 1..Len(chars) |-> _cast_string(PyStr(chars[i]))])
    ELSE IF na_values.k \in {"list", "tuple"} THEN
        PyTuple([i \in 1..Len(na_values.v) |-> _cast_string(na_values.v[i])])
    ELSE IF na_values # PyNone THEN PyTuple(<<_cast_string(na_values)>>)
    ELSE PyNone

\* __post_init__ step 3
PostInitFillNa(fill_na) ==
    IF fill_na # PyNone THEN _cast_string(fill_na) ELSE fill_na

\* ColumnConfig(**args): the object after __post_init__, or TypeError when
\* _parse_pipeline raises (reviews is parsed first)
ColumnConfig(args) ==
    LET reviews == _parse_pipeline(args.reviews)
        normalization == _parse_pipeline(args.normalization)
    IN IF reviews = TypeError \/ normalization = TypeError THEN TypeError
       ELSE [k |-> "ColumnConfig",
             name |-> args.name,
             dtype |-> args.dtype,
             description |-> args.description,
             aliases |-> PostInitAliases(args.aliases, args.name),
             na_values |-> PostInitNaValues(args.na_values),
             fill_na |-> PostInitFillNa(args.fill_na),
             reviews |-> reviews,
             normalization |-> normalization]

\* ColumnConfig._pipeline_to_yaml(pipeline)
_pipeline_to_yaml(pipeline) ==
    IF pipeline = PyNone THEN PyNone
    ELSE IF Len(pipeline.v) = 1 /\ pipeline.v[1].params = PyTuple(<<>>)
    THEN PyStr(pipeline.v[1].method_name)
    ELSE PyDict(DictItems([i \in 1..Len(pipeline.v) |->
            <<PyStr(pipeline.v[i].method_name), params_to_dict(pipeline.v[i])>>]))

\* ColumnConfig.to_dict(); aliases is tuple(self.aliases), the set in the
\* order its iteration yields (alias_order)
to_dict(self, alias_order) ==
    [name |-> self.name,
     dtype |-> self.dtype,
     description |-> self.description,
     aliases |-> PyTuple(alias_order),
     na_values |-> self.na_values,
     fill_na |-> self.fill_na,
     reviews |-> _pipeline_to_yaml(self.reviews),
     normalization |-> _pipeline_to_yaml(self.normalization)]

\* ColumnConfig.from_dict(name, data)
from_dict(name, data) ==
    ColumnConfig([name |-> name,
                  dtype |-> data.dtype,
                  description |-> data.description,
                  aliases |-> data.aliases,
                  na_values |-> data.na_values,
                  fill_na |-> data.fill_na,
                  reviews |-> data.reviews,
                  normalization |-> data.normalization])

----------------------------------------------------------------------------
(* The arguments ColumnConfig is constructed with *)

ParamsOf(key, values) == {PyDict(<< <<PyStr(key), x>> >>) : x \in values}

\* pipeline steps given pre-parsed
StepSpecs == {from_map(m, P) : m \in MethodNames, P \in {PyNone} \cup ParamsOf("p", Ints)}

ParsedPipelines == {PyTuple(q) : q \in SeqsUpTo(StepSpecs, MaxSteps)}

\* the parameters of a step of a mapping pipeline
PipeParams ==
    {PyNone, PyInt(1), PyDict(<<>>)}
    \cup ParamsOf("p", Ints \cup PairLists \cup {PyDict(<<>>)})

MappingPipelines ==
    {PyDict(<< <<PyStr(m), P>> >>) : m \in MethodNames, P \in PipeParams}
    \cup {PyDict(<< <<PyStr(mm[1]), P1>>, <<PyStr(mm[2]), P2>> >>) :
            mm \in {x \in MethodNames \X MethodNames : x[1] # x[2]},
            P1 \in PipeParams, P2 \in {PyNone} \cup ParamsOf("p", {PyInt(1)})}

\* shapes that are no pipeline
InvalidPipelines ==
    {PyInt(1),
     PyList(<<from_map("text", PyNone)>>),
     PyTuple(<<PyStr("text")>>),
     PyTuple(<<from_map("text", PyNone), PyInt(1)>>),
     PySet({PyStr("text")})}

PipelineInputs ==
    {PyNone} \cup {PyStr(m) : m \in MethodNames}
    \cup MappingPipelines \cup ParsedPipelines \cup InvalidPipelines

ReviewInputs ==
    {PyNone, PyStr("text"),
     PyDict(<< <<PyStr("numeric"), PyDict(<< <<PyStr("p"), PyInt(1)>> >>)>> >>),
     PyTuple(<<from_map("text", PyNone), from_map("text", PyNone)>>),
     PyList(<<PyStr("text")>>)}

\* name, dtype, description, aliases, na_values, fill_na
ScalarArgs ==
    { [name |-> PyStr("a"), dtype |-> PyStr("string"), description |-> PyNone,
       aliases |-> PyNone, na_values |-> PyNone, fill_na |-> PyNone],
      [name |-> PyStr("a"), dtype |-> PyStr("string"), description |-> PyStr("text"),
       aliases |-> PyStr("b"), na_values |-> PyStr("NA"), fill_na |-> PyInt(1)],
      [name |-> PyStr("a"), dtype |-> PyStr("Float64"), description |-> PyNone,
       aliases |-> PyList(<<PyStr("b"), PyStr("a"), PyStr("b")>>),
       na_values |-> PyList(<<PyStr("NA"), PyStr("re.Pattern('x')")>>),
       fill_na |-> PyStr("pd.Timestamp('2000-01-01')")],
      [name |-> PyStr("a"), dtype |-> PyStr("Float64"), description |-> PyNone,
       aliases |-> PySet({PyStr("b")}), na_values |-> PyInt(1),
       fill_na |-> PyStr("NA")] }

----------------------------------------------------------------------------
(* ColumnConfig scenario: construction, to_dict, from_dict *)

CcInit ==
    /\ cc_pc = "input"
    /\ \E scalars \in ScalarArgs, reviews \in ReviewInputs, normalization \in PipelineInputs :
          cc_args = [name |-> scalars.name,
                     dtype |-> scalars.dtype,
                     description |-> scalars.description,
                     aliases |-> scalars.aliases,
                     na_values |-> scalars.na_values,
                     fill_na |-> scalars.fill_na,
                     reviews |-> reviews,
                     normalization |-> normalization]
    /\ cc_obj = PyNone
    /\ cc_data = PyNone
    /\ cc_back = PyNone

\* ColumnConfig(...) returns
ConstructColumnConfig ==
    /\ cc_pc = "input"
    /\ ColumnConfig(cc_args) # TypeError
    /\ cc_obj' = ColumnConfig(cc_args)
    /\ cc_pc' = "constructed"
    /\ UNCHANGED <<cc_args, cc_data, cc_back>>
    /\ UNCHANGED <<cs_vars, en_vars, tb_vars>>

\* ColumnConfig(...) raises: no object is bound
ConstructRaises ==
    /\ cc_pc = "input"
    /\ ColumnConfig(cc_args) = TypeError
    /\ cc_pc' = "failed"
    /\ UNCHANGED <<cc_args, cc_obj, cc_data, cc_back>>
    /\ UNCHANGED <<cs_vars, en_vars, tb_vars>>

ToDictCall ==
    /\ cc_pc = "constructed"
    /\ \E order \in [1..Cardinality(cc_obj.aliases.v) -> cc_obj.aliases.v] :
          /\ Injective(order)
          /\ cc_data' = to_dict(cc_obj, order)
    /\ cc_pc' = "serialized"
    /\ UNCHANGED <<cc_args, cc_obj, cc_back>>
    /\ UNCHANGED <<cs_vars, en_vars, tb_vars>>

FromDictCall ==
    /\ cc_pc = "serialized"
    /\ cc_back' = from_dict(cc_data.name, cc_data)
    /\ cc_pc' = "rebuilt"
    /\ UNCHANGED <<cc_args, cc_obj, cc_data>>
    /\ UNCHANGED <<cs_vars, en_vars, tb_vars>>

CcNext ==
    \/ ConstructColumnConfig
    \/ ConstructRaises
    \/ ToDictCall
    \/ FromDictCall

----------------------------------------------------------------------------
(* Properties of ColumnConfig *)

\* C8: for every constructed ColumnConfig c, from_dict(c.name, c.to_dict())
\* is constructed too, has reviews and normalization pipelines equal step by
\* step to those of c, and equal name, dtype, description, aliases,
\* na_values and fill_na.
C8_RoundTrip ==
    cc_pc = "rebuilt" =>
        /\ cc_back # TypeError
        /\ cc_back.reviews = cc_obj.reviews
        /\ cc_back.normalization = cc_obj.normalization
        /\ cc_back.name = cc_obj.name
        /\ cc_back.dtype = cc_obj.dtype
        /\ cc_back.description = cc_obj.description
        /\ cc_back.aliases = cc_obj.aliases
        /\ cc_back.na_values = cc_obj.na_values
        /\ cc_back.fill_na = cc_obj.fill_na

PipelineFields == {"reviews", "normalization"}

\* the shapes the claim lists as accepted
AcceptedShape(x) ==
    x = PyNone \/ x.k = "str" \/ IsMapping(x) \/ IsCallSpecTuple(x)

\* C10: a reviews / normalization argument gives None for None, a one-step
\* pipeline with empty params for a method-name string, one CallSpec per
\* entry in iteration order for a mapping; construction raises, and binds no
\* object, exactly when one of the two arguments has another shape (a
\* number, a list, a set, a tuple holding a non-CallSpec); so both fields of
\* a constructed ColumnConfig are None or a tuple of CallSpec.
C10_PipelineShapes ==
    /\ cc_pc \in {"constructed", "failed"} =>
          ((\E f \in PipelineFields : ~AcceptedShape(cc_args[f])) <=> cc_pc = "failed")
    /\ cc_pc = "failed" => cc_obj = PyNone
    /\ cc_pc = "constructed" =>
          \A f \in PipelineFields :
             LET x == cc_args[f]
                 got == cc_obj[f]
             IN /\ got = PyNone \/ IsCallSpecTuple(got)
                /\ x = PyNone => got = PyNone
                /\ x.k = "str" => got = PyTuple(<<CallSpec(x.v, PyTuple(<<>>))>>)
                /\ IsMapping(x) =>
                      /\ IsCallSpecTuple(got)
                      /\ Len(got.v) = Len(x.v)
                      /\ \A i \in 1..Len(x.v) :
                            /\ got.v[i].method_name = x.v[i][1].v
                            /\ IsMapping(x.v[i][2]) =>
                                  Len(got.v[i].params.v) = Len(x.v[i][2].v)
                            /\ ~IsMapping(x.v[i][2]) => got.v[i].params = PyTuple(<<>>)

\* a two-entry mapping whose iteration order is not the sorted order
C10_Witness ==
    /\ cc_pc = "constructed"
    /\ IsMapping(cc_args.normalization)
    /\ Len(cc_args.normalization.v) = 2
    /\ cc_args.normalization.v[1][1] = PyStr("text")
    /\ cc_obj.normalization.v[1].method_name = "text"
    /\ cc_obj.normalization.v[2].method_name = "numeric"

----------------------------------------------------------------------------
(* columns_config.py: ColumnsConfig *)

KeyError == [k |-> "KeyError", v |-> 0]

ValueError == [k |-> "ValueError", v |-> 0]

EmptyIndex == [alias \in {} |-> PyNone]

\* the loop of _build_index with a later column replacing an earlier claim
RECURSIVE IndexLastWins(_, _)
IndexLastWins(columns, index) ==
    IF columns = <<>> THEN index
    ELSE IndexLastWins(Tail(columns),
            [alias \in Head(columns).aliases.v |-> Head(columns)] @@ index)

_build_index_last_wins(columns) == IndexLastWins(columns, EmptyIndex)

\* the loop of _build_index: an alias already in the index keeps its column
RECURSIVE IndexColumns(_, _)
IndexColumns(columns, index) ==
    IF columns = <<>> THEN index
    ELSE IndexColumns(Tail(columns),
            index @@ [alias \in Head(columns).aliases.v |-> Head(columns)])

\* ColumnsConfig._build_index(): the alias -> ColumnConfig dict
_build_index(columns) == IndexColumns(columns, EmptyIndex)

\* ColumnsConfig(name, description, author, date, columns); the four
\* descriptive strings are stored as given and read by nothing modelled here
ColumnsConfig(columns) ==
    [k |-> "ColumnsConfig",
     _columns |-> columns,
     columns |-> [i \in 1..Len(columns) |-> columns[i].name],
     _index |-> _build_index(columns)]

\* ColumnsConfig.__getitem__(key): the column, or the exception raised
__getitem__(self, key) ==
    IF key.k # "str" THEN TypeError
    ELSE IF key \in DOMAIN self._index THEN self._index[key]
    ELSE KeyError

\* ColumnsConfig.__iter__(): primary names in declaration order
__iter__(self) == [i \in 1..Len(self._columns) |-> self._columns[i].name]

\* membership tested against the primary names only
__contains__names_only(self, key) ==
    IF key.k # "str" THEN FALSE ELSE key \in Range(self.columns)

\* ColumnsConfig.__contains__(key)
__contains__(self, key) ==
    IF key.k # "str" THEN FALSE ELSE key \in DOMAIN self._index

\* groups.setdefault(spec, []).append(name) on the insertion-ordered groups
\* setdefault(spec, []).append(name) opening a new group at every step
SetDefaultAppend_no_merge(groups, spec, name) ==
    Append(groups, <<spec, <<name>> >>)

SetDefaultAppend(groups, spec, name) ==
    IF \E g \in 1..Len(groups) : groups[g][1] = spec
    THEN LET g == CHOOSE g \in 1..Len(groups) : groups[g][1] = spec
         IN [groups EXCEPT ![g] = <<spec, Append(groups[g][2], name)>>]
    ELSE Append(groups, <<spec, <<name>> >>)

\* the inner loop of group_by_normalization over one column's pipeline
RECURSIVE GroupPipeline(_, _, _)
GroupPipeline(groups, steps, name) ==
    IF steps = <<>> THEN groups
    ELSE GroupPipeline(SetDefaultAppend(groups, Head(steps), name), Tail(steps), name)

\* the outer loop of group_by_normalization over the columns
RECURSIVE GroupColumns(_, _)
GroupColumns(groups, columns) ==
    IF columns = <<>> THEN groups
    ELSE LET col == Head(columns)
         IN IF col.normalization = PyNone
            THEN GroupColumns(groups, Tail(columns))
            ELSE GroupColumns(GroupPipeline(groups, col.normalization.v, col.name),
                              Tail(columns))

\* ColumnsConfig.group_by_normalization(): <<spec, column names>> pairs in
\* first-seen-step order
group_by_normalization(self) == GroupColumns(<<>>, self._columns)

----------------------------------------------------------------------------
(* tabular_data.py: TabularDataNormalizer *)

\* the normalization routines hasattr(self, method_name) finds among the
\* method names in use
Routines == {"text", "numeric"}

\* the new column order with the columns outside the configuration first
NewOrder_rest_first(settings, headers) ==
    LET not_in_config == SelectSeq(headers, LAMBDA col : ~__contains__(settings, col))
    IN not_in_config \o __iter__(settings)

\* attributes of the normalizer that are no normalization routine: calling
\* self.data(columns=...) raises TypeError
OtherAttributes == {"data"}

\* hasattr(self, method_name)
hasattr(method_name) == method_name \in Routines \cup OtherAttributes

\* _sort_columns_as_config: the new column order
NewOrder(settings, headers) ==
    LET not_in_config == SelectSeq(headers, LAMBDA col : ~__contains__(settings, col))
    IN __iter__(settings) \o not_in_config

\* data.loc[:, new_order] raises KeyError for a label the table lacks
LocRaises(headers, new_order) ==
    \E i \in 1..Len(new_order) : new_order[i] \notin Range(headers)

\* a routine called with columns=...: it loops over the names in order
RECURSIVE ApplyRoutine(_, _, _)
ApplyRoutine(applied, spec, columns) ==
    IF columns = <<>> THEN applied
    ELSE ApplyRoutine([applied EXCEPT ![Head(columns)] = Append(@, spec)],
                      spec, Tail(columns))

----------------------------------------------------------------------------
(* The configurations and tables the normalizer runs on *)

ColumnNames == <<PyStr("a"), PyStr("b")>>

\* the steps pipelines are built from; "unknown" names no attribute of the
\* normalizer and "data" names its table
EngineSteps == {from_map(m, PyNone) : m \in Routines \cup OtherAttributes \cup {"unknown"}}

\* normalization given in each accepted shape
EnginePipelines ==
    {PyNone}
    \cup {PyStr(m) : m \in Routines}
    \cup {PyDict(<< <<PyStr(mm[1]), PyDict(<<>>)>>, <<PyStr(mm[2]), PyNone>> >>) :
            mm \in {x \in Routines \X Routines : x[1] # x[2]}}
    \cup {PyTuple(q) : q \in SeqsUpTo(EngineSteps, MaxSteps)}

\* aliases, na_values and fill_na of the i-th column
EngineScalars(i) ==
    IF i = 1
    THEN {[aliases |-> PyNone, na_values |-> PyNone, fill_na |-> PyNone],
          [aliases |-> PyStr("q"), na_values |-> PyStr("NA"), fill_na |-> PyInt(1)]}
    ELSE {[aliases |-> PyNone, na_values |-> PyNone, fill_na |-> PyNone],
          [aliases |-> PyList(<<PyStr("q"), PyStr("a")>>), na_values |-> PyInt(1),
           fill_na |-> PyNone]}

EngineColumn(i) ==
    {ColumnConfig([name |-> ColumnNames[i],
                   dtype |-> PyStr("string"),
                   description |-> PyNone,
                   aliases |-> scalars.aliases,
                   na_values |-> scalars.na_values,
                   fill_na |-> scalars.fill_na,
                   reviews |-> PyNone,
                   normalization |-> normalization]) :
        scalars \in EngineScalars(i), normalization \in EnginePipelines}

EngineSettings ==
    {ColumnsConfig(<<c1>>) : c1 \in EngineColumn(1)}
    \cup {ColumnsConfig(<<c1, c2>>) : c1 \in EngineColumn(1), c2 \in EngineColumn(2)}

\* the column labels of the table handed to the normalizer
EngineHeaders ==
    {<<PyStr("b"), PyStr("a")>>,
     <<PyStr("a"), PyStr("b"), PyStr("z")>>,
     <<PyStr("q"), PyStr("b"), PyStr("a")>>,
     <<PyStr("a")>>}

LookupKeys == {PyStr("a"), PyStr("b"), PyStr("q"), PyStr("z"), PyInt(1)}

----------------------------------------------------------------------------
(* Normalizer scenario: a ColumnsConfig is looked up, grouped, or run *)

\* The table is represented by its column labels (en_headers) and, per
\* configured column, the routine calls made on it so far (en_applied).
EnInit ==
    /\ en_pc = "ready"
    /\ en_settings \in EngineSettings \cup {PyNone}
    /\ en_headers \in EngineHeaders
    /\ en_source = en_headers
    /\ en_phases = <<>>
    /\ en_plan = <<>>
    /\ en_applied = [name \in Range(ColumnNames) |-> <<>>]
    /\ en_groups = PyNone
    /\ en_key = PyNone
    /\ en_found = PyNone
    /\ en_raw = PyNone
    /\ en_ret = PyNone

\* settings[key]
GetItemCall ==
    /\ en_pc = "ready"
    /\ en_settings # PyNone
    /\ \E key \in LookupKeys :
          /\ en_key' = key
          /\ en_found' = __getitem__(en_settings, key)
    /\ en_pc' = "looked"
    /\ UNCHANGED <<en_settings, en_headers, en_phases, en_plan, en_applied, en_groups>>
    /\ UNCHANGED <<en_raw, en_ret>>
    /\ UNCHANGED en_source
    /\ UNCHANGED <<cs_vars, cc_vars, tb_vars>>

\* settings.group_by_normalization()
GroupByNormalizationCall ==
    /\ en_pc = "ready"
    /\ en_settings # PyNone
    /\ en_groups' = group_by_normalization(en_settings)
    /\ en_pc' = "grouped"
    /\ UNCHANGED <<en_settings, en_headers, en_phases, en_plan, en_applied, en_key, en_found>>
    /\ UNCHANGED <<en_raw, en_ret>>
    /\ UNCHANGED en_source
    /\ UNCHANGED <<cs_vars, cc_vars, tb_vars>>

\* autonorm() going into the first step before it looks at the settings
AutonormSortsFirst ==
    /\ en_pc = "ready"
    /\ en_settings = PyNone
    /\ en_phases' = Append(en_phases, "sort_columns")
    /\ en_pc' = "raised"
    /\ en_ret' = ValueError
    /\ UNCHANGED <<en_settings, en_headers, en_plan, en_applied, en_groups,
                   en_key, en_found, en_raw>>
    /\ UNCHANGED en_source
    /\ UNCHANGED <<cs_vars, cc_vars, tb_vars>>

\* autonorm() without settings raises ValueError
AutonormRaises ==
    /\ en_pc = "ready"
    /\ en_settings = PyNone
    /\ en_pc' = "raised"
    /\ en_ret' = ValueError
    /\ UNCHANGED <<en_settings, en_headers, en_phases, en_plan, en_applied, en_groups,
                   en_key, en_found, en_raw>>
    /\ UNCHANGED en_source
    /\ UNCHANGED <<cs_vars, cc_vars, tb_vars>>

\* autonorm() enters _autonorm_implementation; 1) _sort_columns_as_config
SortColumnsAsConfig ==
    /\ en_pc = "ready"
    /\ en_settings # PyNone
    /\ ~LocRaises(en_headers, NewOrder(en_settings, en_headers))
    /\ en_headers' = NewOrder(en_settings, en_headers)
    /\ en_phases' = Append(en_phases, "sort_columns")
    /\ en_pc' = "sorted"
    /\ UNCHANGED <<en_settings, en_plan, en_applied, en_groups, en_key, en_found>>
    /\ UNCHANGED <<en_raw, en_ret>>
    /\ en_source' = NewOrder(en_settings, en_headers)
    /\ UNCHANGED <<cs_vars, cc_vars, tb_vars>>

\* 1) _sort_columns_as_config raises KeyError: the run ends
SortColumnsRaises ==
    /\ en_pc = "ready"
    /\ en_settings # PyNone
    /\ LocRaises(en_headers, NewOrder(en_settings, en_headers))
    /\ en_phases' = Append(en_phases, "sort_columns")
    /\ en_pc' = "raised"
    /\ UNCHANGED <<en_settings, en_headers, en_plan, en_applied, en_groups, en_key, en_found>>
    /\ UNCHANGED <<en_raw, en_ret>>
    /\ UNCHANGED en_source
    /\ UNCHANGED <<cs_vars, cc_vars, tb_vars>>

\* 2) _apply_norm_methods: norm_groups is computed
ApplyNormMethods ==
    /\ en_pc = "sorted"
    /\ en_plan' = group_by_normalization(en_settings)
    /\ en_phases' = Append(en_phases, "apply_norm_methods")
    /\ en_pc' = "applying"
    /\ UNCHANGED <<en_settings, en_headers, en_applied, en_groups, en_key, en_found>>
    /\ UNCHANGED <<en_raw, en_ret>>
    /\ UNCHANGED en_source
    /\ UNCHANGED <<cs_vars, cc_vars, tb_vars>>

\* one iteration of the loop over norm_groups: the group is skipped, or its
\* routine is called and returns
ApplyGroup ==
    /\ en_pc = "applying"
    /\ en_plan # <<>>
    /\ LET spec == Head(en_plan)[1]
           columns == Head(en_plan)[2]
       IN /\ ~hasattr(spec.method_name) \/ spec.method_name \in Routines
          /\ en_applied' = IF hasattr(spec.method_name)
                           THEN ApplyRoutine(en_applied, spec, columns)
                           ELSE en_applied
    /\ en_plan' = Tail(en_plan)
    /\ UNCHANGED <<en_pc, en_settings, en_headers, en_phases, en_groups, en_key, en_found>>
    /\ UNCHANGED <<en_raw, en_ret>>
    /\ UNCHANGED en_source
    /\ UNCHANGED <<cs_vars, cc_vars, tb_vars>>

\* one iteration of the loop over norm_groups: getattr gives an attribute
\* that cannot be called with columns=..., TypeError ends the run
ApplyGroupRaises ==
    /\ en_pc = "applying"
    /\ en_plan # <<>>
    /\ hasattr(Head(en_plan)[1].method_name)
    /\ Head(en_plan)[1].method_name \notin Routines
    /\ en_pc' = "raised"
    /\ en_ret' = TypeError
    /\ UNCHANGED <<en_settings, en_headers, en_phases, en_plan, en_applied, en_groups,
                   en_key, en_found, en_raw>>
    /\ UNCHANGED en_source
    /\ UNCHANGED <<cs_vars, cc_vars, tb_vars>>

\* the loop is over; 3) _convert_na_values
ConvertNaValues ==
    /\ en_pc = "applying"
    /\ en_plan = <<>>
    /\ en_phases' = Append(en_phases, "convert_na_values")
    /\ en_pc' = "converted"
    /\ UNCHANGED <<en_settings, en_headers, en_plan, en_applied, en_groups, en_key, en_found>>
    /\ UNCHANGED <<en_raw, en_ret>>
    /\ UNCHANGED en_source
    /\ UNCHANGED <<cs_vars, cc_vars, tb_vars>>

\* 4) _fill_na_values; the table is returned
FillNaValues ==
    /\ en_pc = "converted"
    /\ en_phases' = Append(en_phases, "fill_na_values")
    /\ en_pc' = "done"
    /\ UNCHANGED <<en_settings, en_headers, en_plan, en_applied, en_groups, en_key, en_found>>
    /\ UNCHANGED <<en_raw, en_ret>>
    /\ UNCHANGED en_source
    /\ UNCHANGED <<cs_vars, cc_vars, tb_vars>>

Next ==
    \/ GetItemCall
    \/ GroupByNormalizationCall
    \/ AutonormRaises
    \/ SortColumnsAsConfig
    \/ SortColumnsRaises
    \/ ApplyNormMethods
    \/ ApplyGroup
    \/ ApplyGroupRaises
    \/ ConvertNaValues
    \/ FillNaValues

----------------------------------------------------------------------------
(* Properties of ColumnsConfig and of the normalizer run *)

\* C1: an autonorm run that has a configuration and returns has executed
\* five phases, each once, in the order column alignment, NA conversion,
\* pipeline application, NA conversion, fill.
C1_FivePhasesInOrder ==
    en_pc = "done" =>
        en_phases = <<"sort_columns", "convert_na_values", "apply_norm_methods",
                      "convert_na_values", "fill_na_values">>

\* the steps of a pipeline that name a routine
RoutineSteps(pipeline) ==
    IF pipeline = PyNone THEN <<>>
    ELSE SelectSeq(pipeline.v, LAMBDA spec : spec.method_name \in Routines)

\* C2: once pipeline application is over, the routine calls made on every
\* configured column are the steps s1, ..., sK of its own normalization
\* pipeline, in that order, whatever the other columns declare.
C2_PerColumnStepOrder ==
    en_pc \in {"converted", "done"} =>
        \A i \in 1..Len(en_settings._columns) :
            LET col == en_settings._columns[i]
            IN en_applied[col.name] = RoutineSteps(col.normalization)

GroupsHolding(groups, name) ==
    {g \in 1..Len(groups) : name \in Range(groups[g][2])}

\* C3: a column with an N-step normalization pipeline is named in exactly N
\* of the groups group_by_normalization() returns; a column with no
\* pipeline is named in none.
C3_OneGroupPerStep ==
    en_pc = "grouped" =>
        \A i \in 1..Len(en_settings._columns) :
            LET col == en_settings._columns[i]
                N == IF col.normalization = PyNone THEN 0 ELSE Len(col.normalization.v)
            IN Cardinality(GroupsHolding(en_groups, col.name)) = N

Claims(columns, i, alias) == alias \in columns[i].aliases.v

\* the first column in declaration order whose alias set contains alias
FirstClaimant(columns, alias) ==
    columns[CHOOSE i \in 1..Len(columns) :
                /\ Claims(columns, i, alias)
                /\ \A j \in 1..(i - 1) : ~Claims(columns, j, alias)]

\* C9: every column's name is one of its aliases; looking up an alias of a
\* column returns the first column in declaration order that claims it,
\* which is the column itself when no earlier column claims it.
C9_FirstClaimantWins ==
    en_pc = "looked" =>
        LET columns == en_settings._columns
        IN \A i \in 1..Len(columns) :
              /\ Claims(columns, i, columns[i].name)
              /\ \A alias \in columns[i].aliases.v :
                    en_key = alias =>
                       /\ en_found = FirstClaimant(columns, alias)
                       /\ (\A j \in 1..(i - 1) : ~Claims(columns, j, alias))
                             => en_found = columns[i]

\* "a" is the first column's name and an alias of the second column: the
\* lookup gives the first column
C9_Witness ==
    /\ en_pc = "looked"
    /\ Len(en_settings._columns) = 2
    /\ en_key = PyStr("a")
    /\ Claims(en_settings._columns, 2, en_key)
    /\ en_found = en_settings._columns[1]
    /\ en_found # en_settings._columns[2]

----------------------------------------------------------------------------
(* Properties of ColumnConfig construction: na_values *)

\* C11: on a constructed ColumnConfig na_values is None when none was given;
\* a single scalar marker v, a string or a number, is stored as the 1-tuple
\* holding the cast of v; a list or tuple of markers is stored as the tuple
\* of its cast entries in the same order.
C11_NaValuesStored ==
    cc_pc = "constructed" =>
        LET given == cc_args.na_values
            stored == cc_obj.na_values
        IN /\ given = PyNone => stored = PyNone
           /\ given.k \in {"str", "int"} => stored = PyTuple(<<_cast_string(given)>>)
           /\ given.k \in {"list", "tuple"} =>
                 stored = PyTuple([i \in 1..Len(given.v) |-> _cast_string(given.v[i])])

----------------------------------------------------------------------------
(* ColumnsConfig scenario: a ColumnsConfig is built and queried *)

\* columns that differ in name and aliases only
ConfigColumns ==
    {ColumnConfig([name |-> name,
                   dtype |-> PyStr("string"),
                   description |-> PyNone,
                   aliases |-> aliases,
                   na_values |-> PyNone,
                   fill_na |-> PyNone,
                   reviews |-> PyNone,
                   normalization |-> PyNone]) :
        name \in Range(ColumnNames),
        aliases \in {PyNone, PyStr("q"), PyList(<<PyStr("q"), PyStr("a")>>),
                     PyTuple(<<PyStr("b")>>)}}

\* ColumnsConfig(..., columns=[...]) called directly: names may repeat
ConfigSettings ==
    {ColumnsConfig(<<c1>>) : c1 \in ConfigColumns}
    \cup {ColumnsConfig(<<c1, c2>>) : c1 \in ConfigColumns, c2 \in ConfigColumns}

\* a key the mapping does not hold
Missing == [k |-> "missing", v |-> 0]

MetadataKeys == {"name", "description", "author", "date"}

\* from_dict taking the name from the column spec when it holds one
ColumnsConfig_from_dict_inner_name(data) ==
    LET columns_data == IF data.columns = Missing THEN PyDict(<<>>) ELSE data.columns
    IN IF columns_data = PyNone \/ columns_data.v = <<>> THEN ValueError
       ELSE LET columns == [i \in 1..Len(columns_data.v) |->
                               from_dict(IF columns_data.v[i][2].name # PyNone
                                         THEN columns_data.v[i][2].name
                                         ELSE columns_data.v[i][1],
                                         columns_data.v[i][2])]
            IN IF \E i \in 1..Len(columns) : columns[i] = TypeError THEN TypeError
               ELSE IF \E key \in MetadataKeys : data[key] = Missing THEN KeyError
               ELSE ColumnsConfig(columns)

\* ColumnsConfig.from_dict(data): the ColumnsConfig, or the exception raised
ColumnsConfig_from_dict(data) ==
    LET columns_data == IF data.columns = Missing THEN PyDict(<<>>) ELSE data.columns
    IN IF columns_data = PyNone \/ columns_data.v = <<>> THEN ValueError
       ELSE LET columns == [i \in 1..Len(columns_data.v) |->
                               from_dict(columns_data.v[i][1], columns_data.v[i][2])]
            IN IF \E i \in 1..Len(columns) : columns[i] = TypeError THEN TypeError
               ELSE IF \E key \in MetadataKeys : data[key] = Missing THEN KeyError
               ELSE ColumnsConfig(columns)

\* column specs as a configuration file gives them; name is the 'name' entry
\* of the spec (None: no such entry)
ColumnSpecZ ==
    [name |-> PyStr("z"), dtype |-> PyStr("string"), description |-> PyNone,
     aliases |-> PyStr("q"), na_values |-> PyNone, fill_na |-> PyNone,
     reviews |-> PyNone, normalization |-> PyStr("text")]

ColumnSpecPlain ==
    [name |-> PyNone, dtype |-> PyStr("Float64"), description |-> PyNone,
     aliases |-> PyNone, na_values |-> PyNone, fill_na |-> PyNone,
     reviews |-> PyNone, normalization |-> PyNone]

ColumnsMappings ==
    {Missing, PyNone, PyDict(<<>>),
     PyDict(<< <<PyStr("a"), ColumnSpecZ>> >>),
     PyDict(<< <<PyStr("a"), ColumnSpecZ>>, <<PyStr("b"), ColumnSpecPlain>> >>),
     PyDict(<< <<PyStr("b"), ColumnSpecPlain>>, <<PyStr("a"), ColumnSpecZ>> >>),
     PyDict(<< <<PyStr("b"), ColumnSpecZ>>, <<PyStr("a"), ColumnSpecZ>> >>)}

\* the mapping handed to ColumnsConfig.from_dict: at most one of the four
\* descriptive keys is missing
ConfigData ==
    {[name |-> IF absent = "name" THEN Missing ELSE PyStr("text"),
      description |-> IF absent = "description" THEN Missing ELSE PyStr("text"),
      author |-> IF absent = "author" THEN Missing ELSE PyStr("text"),
      date |-> IF absent = "date" THEN Missing ELSE PyStr("text"),
      columns |-> columns] :
        absent \in MetadataKeys \cup {"none"}, columns \in ColumnsMappings}

\* either a ColumnsConfig built directly, or a mapping for from_dict
ConfigInit ==
    /\ \/ /\ en_pc = "ready"
          /\ en_settings \in ConfigSettings
          /\ en_raw = PyNone
       \/ /\ en_pc = "raw"
          /\ en_settings = PyNone
          /\ en_raw \in ConfigData
    /\ en_headers = <<>>
    /\ en_source = <<>>
    /\ en_phases = <<>>
    /\ en_plan = <<>>
    /\ en_applied = [name \in Range(ColumnNames) |-> <<>>]
    /\ en_groups = PyNone
    /\ en_key = PyNone
    /\ en_found = PyNone
    /\ en_ret = PyNone

\* ColumnsConfig.from_dict(data) returns
ColumnsConfigFromDict ==
    /\ en_pc = "raw"
    /\ ColumnsConfig_from_dict(en_raw).k = "ColumnsConfig"
    /\ en_settings' = ColumnsConfig_from_dict(en_raw)
    /\ en_pc' = "ready"
    /\ UNCHANGED <<en_headers, en_phases, en_plan, en_applied, en_groups,
                   en_key, en_found, en_raw, en_ret>>
    /\ UNCHANGED en_source
    /\ UNCHANGED <<cs_vars, cc_vars, tb_vars>>

\* ColumnsConfig.from_dict(data) raises: en_ret is the exception
ColumnsConfigFromDictRaises ==
    /\ en_pc = "raw"
    /\ ColumnsConfig_from_dict(en_raw).k # "ColumnsConfig"
    /\ en_ret' = ColumnsConfig_from_dict(en_raw)
    /\ en_pc' = "failed"
    /\ UNCHANGED <<en_settings, en_headers, en_phases, en_plan, en_applied, en_groups,
                   en_key, en_found, en_raw>>
    /\ UNCHANGED en_source
    /\ UNCHANGED <<cs_vars, cc_vars, tb_vars>>

\* key in settings, for the key just looked up
ContainsCall ==
    /\ en_pc = "looked"
    /\ en_ret' = __contains__(en_settings, en_key)
    /\ en_pc' = "tested"
    /\ UNCHANGED <<en_settings, en_headers, en_phases, en_plan, en_applied, en_groups,
                   en_key, en_found, en_raw>>
    /\ UNCHANGED en_source
    /\ UNCHANGED <<cs_vars, cc_vars, tb_vars>>

\* len(config) counting the index entries
__len__of_index(self) == Cardinality(DOMAIN self._index)

\* ColumnsConfig.__len__()
__len__(self) == Len(self._columns)

\* tuple(settings)
IterCall ==
    /\ en_pc = "ready"
    /\ en_settings # PyNone
    /\ en_ret' = __iter__(en_settings)
    /\ en_pc' = "iterated"
    /\ UNCHANGED <<en_settings, en_headers, en_phases, en_plan, en_applied, en_groups,
                   en_key, en_found, en_raw>>
    /\ UNCHANGED en_source
    /\ UNCHANGED <<cs_vars, cc_vars, tb_vars>>

\* len(settings)
LenCall ==
    /\ en_pc = "ready"
    /\ en_settings # PyNone
    /\ en_ret' = __len__(en_settings)
    /\ en_pc' = "counted"
    /\ UNCHANGED <<en_settings, en_headers, en_phases, en_plan, en_applied, en_groups,
                   en_key, en_found, en_raw>>
    /\ UNCHANGED en_source
    /\ UNCHANGED <<cs_vars, cc_vars, tb_vars>>

\* the entries of a set in one iteration order
SetAsSeq(S) == CHOOSE f \in [1..Cardinality(S) -> S] : Injective(f)

\* validate_aliases, step 1: the names declared by more than one column
DuplicateNames(columns) ==
    {name \in Range([i \in 1..Len(columns) |-> columns[i].name]) :
        Cardinality({i \in 1..Len(columns) : columns[i].name = name}) > 1}

\* validate_aliases, step 2: one issue per alias of a column that an earlier
\* alias already put in used
RECURSIVE OverlapIssues(_, _)
OverlapIssues(columns, used) ==
    IF columns = <<>> THEN <<>>
    ELSE LET col == Head(columns)
             hits == SetAsSeq(col.aliases.v \cap used)
         IN [i \in 1..Len(hits) |->
                [k |-> "overlap", alias |-> hits[i], column |-> col.name]]
            \o OverlapIssues(Tail(columns), used \cup col.aliases.v)

\* validate_aliases reporting duplicate names only
validate_aliases_names_only(self) ==
    IF DuplicateNames(self._columns) # {}
    THEN <<[k |-> "duplicate_names", names |-> DuplicateNames(self._columns)]>>
    ELSE <<>>

\* ColumnsConfig.validate_aliases(): the list of issues
validate_aliases(self) ==
    (IF DuplicateNames(self._columns) # {}
     THEN <<[k |-> "duplicate_names", names |-> DuplicateNames(self._columns)]>>
     ELSE <<>>)
    \o OverlapIssues(self._columns, {})

\* is_valid tolerating one issue
is_valid_one_issue_allowed(self) == Len(validate_aliases(self)) <= 1

\* ColumnsConfig.is_valid()
is_valid(self) == Len(validate_aliases(self)) = 0

\* settings.validate_aliases()
ValidateAliasesCall ==
    /\ en_pc = "ready"
    /\ en_settings # PyNone
    /\ en_ret' = validate_aliases(en_settings)
    /\ en_pc' = "validated"
    /\ UNCHANGED <<en_settings, en_headers, en_phases, en_plan, en_applied, en_groups,
                   en_key, en_found, en_raw>>
    /\ UNCHANGED en_source
    /\ UNCHANGED <<cs_vars, cc_vars, tb_vars>>

\* settings.is_valid()
IsValidCall ==
    /\ en_pc = "ready"
    /\ en_settings # PyNone
    /\ en_ret' = is_valid(en_settings)
    /\ en_pc' = "checked"
    /\ UNCHANGED <<en_settings, en_headers, en_phases, en_plan, en_applied, en_groups,
                   en_key, en_found, en_raw>>
    /\ UNCHANGED en_source
    /\ UNCHANGED <<cs_vars, cc_vars, tb_vars>>

NextConfig ==
    \/ ColumnsConfigFromDict
    \/ ColumnsConfigFromDictRaises
    \/ GetItemCall
    \/ ContainsCall
    \/ IterCall
    \/ LenCall
    \/ ValidateAliasesCall
    \/ IsValidCall

----------------------------------------------------------------------------
(* Properties of the ColumnsConfig queries *)

IsNameOrAlias(columns, key) ==
    \E i \in 1..Len(columns) : key \in columns[i].aliases.v

C13_IterAndLen ==
    /\ en_pc = "iterated" =>
          /\ Len(en_ret) = Len(en_settings._columns)
          /\ \A i \in 1..Len(en_ret) : en_ret[i] = en_settings._columns[i].name
    /\ en_pc = "counted" => en_ret = Len(en_settings._columns)

\* two columns claiming three aliases: len is 2
C13_Witness ==
    /\ en_pc = "counted"
    /\ en_ret = 2
    /\ Cardinality(DOMAIN en_settings._index) = 3

SameNameTwice(columns) ==
    \E i, j \in 1..Len(columns) : i # j /\ columns[i].name = columns[j].name

AliasClaimedTwice(columns) ==
    \E i, j \in 1..Len(columns) :
        i # j /\ columns[i].aliases.v \cap columns[j].aliases.v # {}

\* C14: validate_aliases returns a list, non-empty exactly when two columns
\* have the same primary name or some alias (a name is one) is claimed by
\* more than one column; is_valid() is true exactly in the other case, that
\* is exactly when the list is empty.
C14_IssuesIffConflict ==
    LET conflict == SameNameTwice(en_settings._columns)
                    \/ AliasClaimedTwice(en_settings._columns)
    IN /\ en_pc = "validated" =>
             /\ DOMAIN en_ret = 1..Len(en_ret)
             /\ en_ret # <<>> <=> conflict
       /\ en_pc = "checked" =>
             /\ en_ret \in BOOLEAN
             /\ en_ret <=> ~conflict

\* distinct names and a shared alias: one overlap issue
C14_Witness ==
    /\ en_pc = "validated"
    /\ ~SameNameTwice(en_settings._columns)
    /\ AliasClaimedTwice(en_settings._columns)
    /\ Len(en_ret) = 1
    /\ en_ret[1].k = "overlap"

\* C15: ColumnsConfig.from_dict raises and yields no ColumnsConfig exactly
\* when the columns mapping is missing or empty or one of name, description,
\* author, date is missing; otherwise the ColumnsConfig has one ColumnConfig
\* per entry, in the mapping's order, named by the mapping key whatever
\* 'name' entry the column spec holds.
C15_FromDict ==
    (en_raw # PyNone /\ en_pc # "raw") =>
        LET columns == en_raw.columns
            no_columns == columns = Missing \/ columns = PyNone \/ columns.v = <<>>
            no_metadata == \E key \in MetadataKeys : en_raw[key] = Missing
        IN /\ en_pc = "failed" <=> (no_columns \/ no_metadata)
           /\ en_pc = "failed" =>
                 /\ en_settings = PyNone
                 /\ en_ret \in {ValueError, KeyError}
           /\ en_pc # "failed" =>
                 /\ en_settings.k = "ColumnsConfig"
                 /\ Len(en_settings._columns) = Len(columns.v)
                 /\ \A i \in 1..Len(columns.v) :
                       /\ en_settings._columns[i].k = "ColumnConfig"
                       /\ en_settings._columns[i].name = columns.v[i][1]
                       /\ en_settings._columns[i].dtype = columns.v[i][2].dtype

\* two entries, "b" before "a", the first spec holding the name entry "z"
C15_Witness ==
    /\ en_pc = "ready"
    /\ en_raw # PyNone
    /\ Len(en_raw.columns.v) = 2
    /\ en_raw.columns.v[1][2].name = PyStr("z")
    /\ en_settings._columns[1].name = PyStr("b")
    /\ en_settings._columns[2].name = PyStr("a")

----------------------------------------------------------------------------
(* Properties of the normalizer run: preconditions and column alignment *)

\* C16: autonorm on a normalizer without settings raises an error before any
\* phase starts: the only step is the raise, no phase is entered and the
\* table is left as it was.
C16_NoSettingsNoPhase ==
    [][(en_pc = "ready" /\ en_settings = PyNone) =>
          /\ en_pc' = "raised"
          /\ en_ret' = ValueError
          /\ en_phases' = <<>>
          /\ en_plan' = <<>>
          /\ en_headers' = en_headers
          /\ en_applied' = en_applied]_vars

C16_Witness ==
    /\ en_pc = "raised"
    /\ en_settings = PyNone
    /\ en_ret = ValueError
    /\ en_phases = <<>>

\* C17: when column alignment completes, the table's columns are the
\* configured columns in the iteration order of the ColumnsConfig, followed
\* by the table columns absent from the configuration (no column's name or
\* alias) in the relative order they had before.
C17_AlignedOrder ==
    [][(en_pc = "ready" /\ en_pc' = "sorted") =>
          LET columns == en_settings._columns
              configured == [i \in 1..Len(columns) |-> columns[i].name]
              absent == SelectSeq(en_headers,
                                  LAMBDA col : ~IsNameOrAlias(columns, col))
          IN en_headers' = configured \o absent]_vars

\* one configured column and two absent ones, "q" before "b" as in the input
C17_Witness ==
    /\ en_pc = "sorted"
    /\ Len(en_settings._columns) = 1
    /\ en_headers = <<PyStr("a"), PyStr("q"), PyStr("b")>>

MissingFromTable(columns, headers) ==
    {i \in 1..Len(columns) : columns[i].name \notin Range(headers)}

\* C18: a configured column that is absent from the table never aborts the
\* run: no run with settings ends in a raise while such a column exists.
C18_MissingColumnNeverAborts ==
    (en_settings # PyNone /\ MissingFromTable(en_settings._columns, en_headers) # {})
        => en_pc # "raised"

\* the table labels that are an alias, and not the name, of the i-th column
AliasHeaders(columns, i, labels) ==
    {h \in Range(labels) : h \in columns[i].aliases.v /\ h # columns[i].name}

\* C19: the data of an input column whose header is a non-primary alias of a
\* configured column stands, once the columns are aligned (no later step
\* moves or renames a column), under that column's primary name.
C19_AliasHeaderRenamed ==
    [][(en_pc = "ready" /\ en_pc' = "sorted") =>
          \A i \in 1..Len(en_settings._columns) :
              \A h \in AliasHeaders(en_settings._columns, i, en_headers) :
                  \E p \in 1..Len(en_headers') :
                      /\ en_source'[p] = h
                      /\ en_headers'[p] = en_settings._columns[i].name]_vars

\* C20: during pipeline application a group whose method name is not one of
\* the normalization routines is skipped: the step does not raise, leaves
\* the table as it is and goes on to the next group of the plan.
C20_NonRoutineGroupSkipped ==
    [][(/\ en_pc = "applying"
        /\ en_plan # <<>>
        /\ Head(en_plan)[1].method_name \notin Routines) =>
          /\ en_pc' = "applying"
          /\ en_plan' = Tail(en_plan)
          /\ en_applied' = en_applied
          /\ en_headers' = en_headers
          /\ en_source' = en_source]_vars

-----------------------------------------------------------------------------
(* tabular_data.py: the table of a normalizer, cell by cell *)

\* pd.NA, the missing entry
NA == [k |-> "NA", v |-> 0]

STRING_DTYPES == {"string"}
NUMERIC_DTYPES == {"Int64", "Float64"}
DATE_DTYPES == {"datetime64[ns]", "datetime64[ns, UTC]"}
CATEGORICAL_DTYPES == {"category"}
BOOLEAN_DTYPES == {"boolean"}

ALL_DTYPES ==
    STRING_DTYPES \cup NUMERIC_DTYPES \cup DATE_DTYPES \cup CATEGORICAL_DTYPES
        \cup BOOLEAN_DTYPES

\* one column of self.data: its label, its dtype and its entries
Series(label, dtype, cells) == [label |-> label, dtype |-> dtype, cells |-> cells]

Labels(data) == [i \in 1..Len(data) |-> data[i].label]

HasColumn(data, column) == \E i \in 1..Len(data) : data[i].label = column

\* self.data[column]
GetColumn(data, column) ==
    data[CHOOSE i \in 1..Len(data) : data[i].label = column]

\* self.data[column] = s
SetColumn(data, column, s) ==
    [i \in 1..Len(data) |->
        IF data[i].label = column THEN Series(column, s.dtype, s.cells) ELSE data[i]]

\* s.isin(values): an entry is selected when it is equal to one of the values
isin(cells, values) ==
    [i \in 1..Len(cells) |->
        cells[i] # NA /\ \E j \in 1..Len(values) : PyEq(cells[i], values[j])]

\* the isinstance test of convert_to_na: a single value becomes a list
AsValueList(na_values) ==
    IF na_values.k \in {"list", "tuple"} THEN na_values.v
    ELSE IF na_values.k \in {"set", "frozenset"} THEN SetAsSeq(na_values.v)
    ELSE <<na_values>>

\* self.data.loc[na_mask, column] = pd.NA
MaskToNA(s, na_mask) ==
    Series(s.label, s.dtype,
           [i \in 1..Len(s.cells) |-> IF na_mask[i] THEN NA ELSE s.cells[i]])

\* the exception of the loop below, None when it completes
convert_to_na_raises(data, items) ==
    IF \E i \in 1..Len(items) :
          items[i][2] # PyNone /\ ~HasColumn(data, items[i][1])
    THEN KeyError ELSE PyNone

\* convert_to_na(columns_and_nas), over the items of the mapping in order
RECURSIVE convert_to_na(_, _)
convert_to_na(data, items) ==
    IF items = <<>> THEN data
    ELSE LET column == items[1][1]
             na_values == items[1][2]
             rest == Tail(items)
         IN IF na_values = PyNone THEN convert_to_na(data, rest)
            ELSE IF ~HasColumn(data, column) THEN data  \* self.data[column] raises
            ELSE LET s == GetColumn(data, column)
                     na_mask == isin(s.cells, AsValueList(na_values))
                 IN IF s.dtype \notin ALL_DTYPES THEN convert_to_na(data, rest)
                    ELSE convert_to_na(
                             SetColumn(data, column, MaskToNA(s, na_mask)), rest)

-----------------------------------------------------------------------------
(* tabular_data.py: text, numeric, fill_na on the entries of a column *)

\* method_params.get(key, default) for a keyword the routine declares
Keyword(method_params, key, default) ==
    IF \E i \in 1..Len(method_params.v) : method_params.v[i][1] = PyStr(key)
    THEN method_params.v[CHOOSE i \in 1..Len(method_params.v) :
                             method_params.v[i][1] = PyStr(key)][2]
    ELSE default

\* str.lower(), str.upper(), str.title() on the explored strings
Lower(s) == CASE s = "A" -> "a" [] s = "X" -> "x" [] s \in {"NA", "Na"} -> "na" [] OTHER -> s
Upper(s) == CASE s = "a" -> "A" [] s = "x" -> "X" [] s \in {"na", "Na"} -> "NA" [] OTHER -> s
Title(s) == CASE s = "a" -> "A" [] s = "x" -> "X" [] s \in {"na", "NA"} -> "Na" [] OTHER -> s

\* str(value)
str(value) ==
    CASE value.k = "str" -> value
      [] value.k = "int" -> PyStr(CASE value.v = 0 -> "0" [] value.v = 1 -> "1"
                                    [] value.v = 2 -> "2" [] OTHER -> "3")
      [] value.k = "timestamp" -> PyStr(value.v)
      [] OTHER -> PyStr("<NA>")

\* Series.map over the entries that are present
MapCells(cells, Op(_)) ==
    [i \in 1..Len(cells) |-> IF cells[i] = NA THEN NA ELSE Op(cells[i])]

\* the body of the loop of text for one column; the options left at their
\* defaults (cleanup_pattern, strip, compact_whitespace, empty_to_na,
\* delete_diacritics, delete_non_ascii) do nothing
text_column(s, error, case) ==
    LET coerced == IF error = PyStr("coerce")
                   THEN [i \in 1..Len(s.cells) |->
                            IF s.cells[i].k = "str" THEN s.cells[i] ELSE NA]
                   ELSE MapCells(s.cells, str)
        cased == IF case = PyStr("lower")
                 THEN MapCells(coerced, LAMBDA c : PyStr(Lower(c.v)))
                 ELSE IF case = PyStr("upper")
                 THEN MapCells(coerced, LAMBDA c : PyStr(Upper(c.v)))
                 ELSE IF case = PyStr("title")
                 THEN MapCells(coerced, LAMBDA c : PyStr(Title(c.v)))
                 ELSE coerced
    IN Series(s.label, "string", cased)

\* text(columns, error=..., case=...) with a valid case option
RECURSIVE text(_, _, _)
text(data, columns, method_params) ==
    IF columns = <<>> THEN data
    ELSE LET column == Head(columns)
             s == text_column(GetColumn(data, column),
                              Keyword(method_params, "error", PyStr("coerce")),
                              Keyword(method_params, "case", PyNone))
         IN text(SetColumn(data, column, s), Tail(columns), method_params)

\* pd.to_numeric(s, errors="coerce") on one entry
to_numeric(cell) ==
    CASE cell.k = "int" -> cell
      [] cell = PyStr("0") -> PyInt(0)
      [] cell = PyStr("1") -> PyInt(1)
      [] cell = PyStr("2") -> PyInt(2)
      [] OTHER -> NA

\* s.astype(dtype, errors="raise") raises for an entry that is no number
AstypeNumericRaises(s) ==
    \E i \in 1..Len(s.cells) : s.cells[i] # NA /\ to_numeric(s.cells[i]) = NA

\* the body of the loop of numeric for one column, cleanup_pattern left None:
\* with errors other than "coerce" the cast series is bound to s and dropped
\* by continue
numeric_column(s, dtype, errors) ==
    IF errors # PyStr("coerce") THEN s
    ELSE Series(s.label, dtype.v, [i \in 1..Len(s.cells) |-> to_numeric(s.cells[i])])

\* the exception that ends numeric(columns, ...), None when it returns
numeric_raises(data, columns, method_params) ==
    IF \E i \in 1..Len(columns) : ~HasColumn(data, columns[i]) THEN KeyError
    ELSE IF /\ Keyword(method_params, "errors", PyStr("coerce")) = PyStr("raise")
            /\ \E i \in 1..Len(columns) : AstypeNumericRaises(GetColumn(data, columns[i]))
    THEN ValueError
    ELSE PyNone

RECURSIVE numeric(_, _, _)
numeric(data, columns, method_params) ==
    IF columns = <<>> THEN data
    ELSE LET column == Head(columns)
             s == numeric_column(GetColumn(data, column),
                                 Keyword(method_params, "dtype", PyStr("Float64")),
                                 Keyword(method_params, "errors", PyStr("coerce")))
         IN numeric(SetColumn(data, column, s), Tail(columns), method_params)

\* float(fill_value): the number, or the exception
float(fill_value) ==
    IF fill_value.k = "int" THEN fill_value
    ELSE IF fill_value.k = "str"
    THEN (IF to_numeric(fill_value) = NA THEN ValueError ELSE to_numeric(fill_value))
    ELSE TypeError

\* s.fillna(fill_value)
fillna(cells, fill_value) ==
    [i \in 1..Len(cells) |-> IF cells[i] = NA THEN fill_value ELSE cells[i]]

\* the loop body filling string columns only
fill_na_column_strings_only(s, fill_value) ==
    IF s.dtype \notin ALL_DTYPES THEN s
    ELSE IF fill_value = PyNone THEN s
    ELSE IF s.dtype \in STRING_DTYPES
    THEN Series(s.label, "string", fillna(s.cells, str(fill_value)))
    ELSE s

\* the body of the loop of fill_na for one column: _string_fill_na for a
\* string column, float(fill_value) for a numeric one, _categorical_fill_na
\* for a categorical one, fillna for a date or boolean one
fill_na_column(s, fill_value) ==
    IF s.dtype \notin ALL_DTYPES THEN s
    ELSE IF fill_value = PyNone THEN s
    ELSE IF s.dtype \in STRING_DTYPES
    THEN Series(s.label, "string", fillna(s.cells, str(fill_value)))
    ELSE IF s.dtype \in NUMERIC_DTYPES
    THEN Series(s.label, s.dtype, fillna(s.cells, float(fill_value)))
    ELSE Series(s.label, s.dtype, fillna(s.cells, fill_value))

\* the exception of one iteration of fill_na, None when there is none
fill_na_column_raises(data, column, fill_value) ==
    IF ~HasColumn(data, column) THEN KeyError
    ELSE LET s == GetColumn(data, column)
         IN IF /\ s.dtype \in NUMERIC_DTYPES
               /\ fill_value # PyNone
               /\ float(fill_value) \in {ValueError, TypeError}
            THEN float(fill_value)
            ELSE PyNone

\* the exception that ends fill_na(columns_and_fills), None when it returns
RECURSIVE fill_na_raises(_, _)
fill_na_raises(data, items) ==
    IF items = <<>> THEN PyNone
    ELSE IF fill_na_column_raises(data, items[1][1], items[1][2]) # PyNone
    THEN fill_na_column_raises(data, items[1][1], items[1][2])
    ELSE fill_na_raises(data, Tail(items))

\* fill_na(columns_and_fills), over the items of the mapping in order, up to
\* the item that raises
RECURSIVE fill_na(_, _)
fill_na(data, items) ==
    IF items = <<>> THEN data
    ELSE IF fill_na_column_raises(data, items[1][1], items[1][2]) # PyNone THEN data
    ELSE fill_na(SetColumn(data, items[1][1],
                           fill_na_column(GetColumn(data, items[1][1]), items[1][2])),
                 Tail(items))

-----------------------------------------------------------------------------
(* tabular_data.py: date *)

\* the explored date strings
ISODate == "2000-01-01"
SlashDate == "01/02/2000"

\* pd.to_datetime(entry, errors='coerce') with dayfirst and yearfirst False, on the
\* explored strings
to_datetime_inferred(cell) ==
    CASE cell = PyStr(ISODate) -> PyTimestamp("2000-01-01")
      [] cell = PyStr(SlashDate) -> PyTimestamp("2000-01-02")
      [] OTHER -> NA

\* pd.to_datetime(entry, format=fmt, errors='coerce') on the explored strings
to_datetime_format(cell, fmt) ==
    CASE cell = PyStr(ISODate) /\ fmt = PyStr("%Y-%m-%d") -> PyTimestamp("2000-01-01")
      [] cell = PyStr(SlashDate) /\ fmt = PyStr("%d/%m/%Y") -> PyTimestamp("2000-02-01")
      [] cell = PyStr(SlashDate) /\ fmt = PyStr("%m/%d/%Y") -> PyTimestamp("2000-01-02")
      [] OTHER -> NA

Inferred == PyStr("inferred")

\* one parsing attempt over the entries cast to string
Parsed(cells, candidate) ==
    [i \in 1..Len(cells) |->
        IF cells[i] = NA THEN NA
        ELSE IF candidate = Inferred THEN to_datetime_inferred(str(cells[i]))
        ELSE to_datetime_format(str(cells[i]), candidate)]

\* parsed.isna().sum()
NaCount(cells) == Cardinality({i \in 1..Len(cells) : cells[i] = NA})

\* the attempts in order: a candidate replaces the best one only with
\* strictly fewer missing entries
RECURSIVE BestSeries(_, _, _, _)
BestSeries(cells, candidates, best_series, best_na_count) ==
    IF candidates = <<>> THEN best_series
    ELSE LET parsed == Parsed(cells, Head(candidates))
         IN IF NaCount(parsed) < best_na_count
            THEN BestSeries(cells, Tail(candidates), parsed, NaCount(parsed))
            ELSE BestSeries(cells, Tail(candidates), best_series, best_na_count)

\* formats_list
FormatsList(formats) ==
    IF formats = PyNone THEN <<>>
    ELSE IF formats.k = "str" THEN <<formats>>
    ELSE formats.v

\* the attempts date makes: inference only when no format is given
Candidates(formats_list) ==
    (IF formats_list = <<>> THEN <<Inferred>> ELSE <<>>) \o formats_list

\* the body of the loop of date for one column, with cleanup_pattern None
\* and utc False: a datetime column is left as it is
date_column(s, formats_list) ==
    IF s.dtype \in DATE_DTYPES THEN s
    ELSE Series(s.label, "datetime64[ns]",
                BestSeries(s.cells, Candidates(formats_list), NA, Len(s.cells) + 1))

RECURSIVE date(_, _, _)
date(data, columns, formats) ==
    IF columns = <<>> THEN data
    ELSE IF ~HasColumn(data, Head(columns)) THEN data  \* self.data[column] raises
    ELSE date(SetColumn(data, Head(columns),
                        date_column(GetColumn(data, Head(columns)), FormatsList(formats))),
              Tail(columns), formats)

\* the exception that ends date(columns, formats), None when it returns
date_raises(data, columns) ==
    IF \E i \in 1..Len(columns) : ~HasColumn(data, columns[i]) THEN KeyError ELSE PyNone

-----------------------------------------------------------------------------
(* tabular_data.py: the phases of a run on the entries of the table *)

\* self.data.loc[:, new_order]
Loc(data, new_order) == [i \in 1..Len(new_order) |-> GetColumn(data, new_order[i])]

\* getattr(self, method_name)(**method_params) for the routines in use
CallRoutine(data, method_name, method_params, columns) ==
    IF method_name = "text" THEN text(data, columns, method_params)
    ELSE numeric(data, columns, method_params)

\* the loop of _apply_norm_methods over norm_groups
RECURSIVE ApplyGroups(_, _)
ApplyGroups(data, norm_groups) ==
    IF norm_groups = <<>> THEN data
    ELSE LET spec == Head(norm_groups)[1]
             columns == Head(norm_groups)[2]
         IN IF ~hasattr(spec.method_name) THEN ApplyGroups(data, Tail(norm_groups))
            ELSE ApplyGroups(CallRoutine(data, spec.method_name,
                                         params_to_dict(spec), columns),
                             Tail(norm_groups))

\* get_na_values_dict giving every column the markers of the first column
get_na_values_dict_of_first(self) ==
    [i \in 1..Len(self._columns) |-> <<self._columns[i].name, self._columns[1].na_values>>]

\* ColumnsConfig.get_na_values_dict()
get_na_values_dict(self) ==
    [i \in 1..Len(self._columns) |-> <<self._columns[i].name, self._columns[i].na_values>>]

\* ColumnsConfig.get_columns_fill_na_dict()
get_columns_fill_na_dict(self) ==
    [i \in 1..Len(self._columns) |-> <<self._columns[i].name, self._columns[i].fill_na>>]

-----------------------------------------------------------------------------
(* Tables and calls of the table scenario *)

TableLabels == <<PyStr("a"), PyStr("b")>>

\* entries of the explored columns
TextCells == {<<PyStr("x"), PyStr("NA")>>, <<PyStr("A"), NA>>}
NumberCells == {<<PyInt(1), NA>>}

TableSeries(label) ==
    {Series(label, dtype, cells) : dtype \in {"string", "object"}, cells \in TextCells}
    \cup {Series(label, dtype, cells) : dtype \in {"Int64", "object"}, cells \in NumberCells}

\* the explored tables: one series per label
Tables == {<<sa, sb>> : sa \in TableSeries(TableLabels[1]), sb \in TableSeries(TableLabels[2])}

\* columns of date strings, and a column that is already temporal
DateSeries(label) ==
    {Series(label, "object", cells) :
        cells \in {<<PyStr(ISODate), PyStr(ISODate)>>, <<PyStr(SlashDate), PyStr("x")>>,
                   <<PyStr(ISODate), NA>>}}
    \cup {Series(label, "datetime64[ns]", <<PyTimestamp("2000-01-01"), NA>>)}

DateTables ==
    {<<sa, sb>> : sa \in DateSeries(TableLabels[1]),
                  sb \in {Series(TableLabels[2], "object", <<PyStr(SlashDate), PyStr(SlashDate)>>)}}

\* the columns and formats arguments of date
DateColumns == {<<TableLabels[1]>>, <<TableLabels[1], TableLabels[2]>>, <<PyStr("z")>>}

DateFormats ==
    {PyNone, PyStr("%Y-%m-%d"), PyStr("%d/%m/%Y"),
     PyList(<<PyStr("%d/%m/%Y"), PyStr("%m/%d/%Y")>>),
     PyList(<<PyStr("%m/%d/%Y"), PyStr("%Y-%m-%d")>>)}

\* the columns, dtype and errors arguments of numeric
NumericColumns == {<<TableLabels[1]>>, <<TableLabels[1], TableLabels[2]>>, <<PyStr("z")>>}

NumericParams ==
    {PyDict(<< <<PyStr("dtype"), PyStr(dtype)>>, <<PyStr("errors"), PyStr(errors)>> >>) :
        dtype \in NUMERIC_DTYPES, errors \in {"coerce", "raise", "ignore"}}

\* na_values arguments: absent, a literal, a pattern, a single value
NaValuesInputs ==
    {PyNone, PyTuple(<<PyStr("NA")>>), PyTuple(<<PyPattern("x")>>),
     PyStr("x"), PyList(<<PyStr("x"), PyInt(1)>>)}

ColumnsAndNas ==
    {<<<<TableLabels[1], na>>, <<TableLabels[2], nb>>>> :
        na \in NaValuesInputs, nb \in NaValuesInputs}
    \cup {<<<<TableLabels[1], PyStr("x")>>, <<PyStr("z"), PyStr("x")>>>>}

-----------------------------------------------------------------------------
(* The configurations of the runs of the table scenario *)

TextLower == from_map("text", PyDict(<< <<PyStr("case"), PyStr("lower")>> >>))

\* normalization, na_values and fill_na of the i-th configured column
RunScalars(i) ==
    IF i = 1
    THEN {[normalization |-> n, na_values |-> na, fill_na |-> f] :
             n \in {PyNone, PyStr("text"), PyTuple(<<TextLower>>)},
             na \in {PyNone, PyList(<<PyStr("NA")>>)},
             f \in {PyNone, PyStr("A"), PyInt(1)}}
    ELSE {[normalization |-> n, na_values |-> na, fill_na |-> f] :
             n \in {PyNone, PyStr("text"), PyStr("numeric")},
             na \in {PyList(<<PyStr("x")>>)},
             f \in {PyNone, PyInt(1)}}

RunColumn(i) ==
    {ColumnConfig([name |-> TableLabels[i],
                   dtype |-> PyStr("string"),
                   description |-> PyNone,
                   aliases |-> PyNone,
                   na_values |-> scalars.na_values,
                   fill_na |-> scalars.fill_na,
                   reviews |-> PyNone,
                   normalization |-> scalars.normalization]) :
        scalars \in RunScalars(i)}

RunSettings == {ColumnsConfig(<<c1, c2>>) : c1 \in RunColumn(1), c2 \in RunColumn(2)}

\* the tables of the runs: both columns in either order, or the first alone
RunTables ==
    Tables
    \cup {<<t[2], t[1]>> : t \in {u \in Tables : u[1].dtype = "string" /\ u[2].dtype = "string"}}
    \cup {<<sa>> : sa \in TableSeries(TableLabels[1])}

-----------------------------------------------------------------------------
(* The table scenario: a routine called on a table, or up to two runs *)

\* a normalizer without configuration, or one with a configuration
TbInit ==
    /\ tb_pc = "ready"
    /\ tb_call = PyNone
    /\ \/ tb_settings = PyNone /\ tb_data \in Tables \cup DateTables
       \/ tb_settings \in RunSettings /\ tb_data \in RunTables
    /\ tb_before = tb_data
    /\ tb_ret = PyNone

\* normalizer.convert_to_na(columns_and_nas) returns
ConvertToNaCall ==
    /\ tb_pc = "ready"
    /\ tb_settings = PyNone
    /\ \E items \in ColumnsAndNas :
          /\ convert_to_na_raises(tb_data, items) = PyNone
          /\ tb_call' = [method |-> "convert_to_na", args |-> PyDict(items)]
          /\ tb_data' = convert_to_na(tb_data, items)
    /\ tb_before' = tb_data
    /\ tb_pc' = "called"
    /\ UNCHANGED <<tb_settings, tb_ret>>
    /\ UNCHANGED <<cs_vars, cc_vars, en_vars>>

\* normalizer.convert_to_na(columns_and_nas) raises
ConvertToNaRaises ==
    /\ tb_pc = "ready"
    /\ tb_settings = PyNone
    /\ \E items \in ColumnsAndNas :
          /\ convert_to_na_raises(tb_data, items) # PyNone
          /\ tb_call' = [method |-> "convert_to_na", args |-> PyDict(items)]
          /\ tb_data' = convert_to_na(tb_data, items)
          /\ tb_ret' = convert_to_na_raises(tb_data, items)
    /\ tb_before' = tb_data
    /\ tb_pc' = "raised"
    /\ UNCHANGED tb_settings
    /\ UNCHANGED <<cs_vars, cc_vars, en_vars>>

\* normalizer.date(columns, formats) returns
DateCall ==
    /\ tb_pc = "ready"
    /\ tb_settings = PyNone
    /\ \E columns \in DateColumns, formats \in DateFormats :
          /\ date_raises(tb_data, columns) = PyNone
          /\ tb_call' = [method |-> "date",
                         args |-> PyDict(<< <<PyStr("columns"), PyTuple(columns)>>,
                                            <<PyStr("formats"), formats>> >>)]
          /\ tb_data' = date(tb_data, columns, formats)
    /\ tb_before' = tb_data
    /\ tb_pc' = "called"
    /\ UNCHANGED <<tb_settings, tb_ret>>
    /\ UNCHANGED <<cs_vars, cc_vars, en_vars>>

\* normalizer.date(columns, formats) raises KeyError
DateRaises ==
    /\ tb_pc = "ready"
    /\ tb_settings = PyNone
    /\ \E columns \in DateColumns, formats \in DateFormats :
          /\ date_raises(tb_data, columns) # PyNone
          /\ tb_call' = [method |-> "date",
                         args |-> PyDict(<< <<PyStr("columns"), PyTuple(columns)>>,
                                            <<PyStr("formats"), formats>> >>)]
          /\ tb_data' = date(tb_data, columns, formats)
          /\ tb_ret' = date_raises(tb_data, columns)
    /\ tb_before' = tb_data
    /\ tb_pc' = "raised"
    /\ UNCHANGED tb_settings
    /\ UNCHANGED <<cs_vars, cc_vars, en_vars>>

\* normalizer.numeric(columns, dtype, errors) returns
NumericCall ==
    /\ tb_pc = "ready"
    /\ tb_settings = PyNone
    /\ tb_data \in Tables
    /\ \E columns \in NumericColumns, method_params \in NumericParams :
          /\ numeric_raises(tb_data, columns, method_params) = PyNone
          /\ tb_call' = [method |-> "numeric",
                         args |-> PyDict(<< <<PyStr("columns"), PyTuple(columns)>> >>
                                         \o method_params.v)]
          /\ tb_data' = numeric(tb_data, columns, method_params)
    /\ tb_before' = tb_data
    /\ tb_pc' = "called"
    /\ UNCHANGED <<tb_settings, tb_ret>>
    /\ UNCHANGED <<cs_vars, cc_vars, en_vars>>

\* normalizer.numeric(columns, dtype, errors) raises: KeyError for a column
\* the table lacks, ValueError from astype with errors='raise'
NumericRaises ==
    /\ tb_pc = "ready"
    /\ tb_settings = PyNone
    /\ tb_data \in Tables
    /\ \E columns \in NumericColumns, method_params \in NumericParams :
          /\ numeric_raises(tb_data, columns, method_params) # PyNone
          /\ tb_call' = [method |-> "numeric",
                         args |-> PyDict(<< <<PyStr("columns"), PyTuple(columns)>> >>
                                         \o method_params.v)]
          /\ tb_ret' = numeric_raises(tb_data, columns, method_params)
    /\ tb_before' = tb_data
    /\ tb_pc' = "raised"
    /\ UNCHANGED <<tb_settings, tb_data>>
    /\ UNCHANGED <<cs_vars, cc_vars, en_vars>>

\* 1) _sort_columns_as_config, first phase of a run (the second run starts on
\* the table the first one returned)
TbSortColumnsAsConfig ==
    /\ tb_settings # PyNone
    /\ \/ tb_pc = "ready" /\ tb_call' = [method |-> "autonorm", args |-> PyInt(1)]
       \/ /\ tb_pc = "filled"
          /\ tb_call.args = PyInt(1)
          /\ tb_call' = [method |-> "autonorm", args |-> PyInt(2)]
    /\ ~LocRaises(Labels(tb_data), NewOrder(tb_settings, Labels(tb_data)))
    /\ tb_data' = Loc(tb_data, NewOrder(tb_settings, Labels(tb_data)))
    /\ tb_before' = tb_data
    /\ tb_pc' = "sorted"
    /\ UNCHANGED <<tb_settings, tb_ret>>
    /\ UNCHANGED <<cs_vars, cc_vars, en_vars>>

\* 1) _sort_columns_as_config raises KeyError: a configured column is missing
TbSortColumnsRaises ==
    /\ tb_settings # PyNone
    /\ tb_pc = "ready"
    /\ LocRaises(Labels(tb_data), NewOrder(tb_settings, Labels(tb_data)))
    /\ tb_call' = [method |-> "autonorm", args |-> PyInt(1)]
    /\ tb_before' = tb_data
    /\ tb_ret' = KeyError
    /\ tb_pc' = "raised"
    /\ UNCHANGED <<tb_settings, tb_data>>
    /\ UNCHANGED <<cs_vars, cc_vars, en_vars>>

\* 2) _apply_norm_methods
TbApplyNormMethods ==
    /\ tb_pc = "sorted"
    /\ tb_data' = ApplyGroups(tb_data, group_by_normalization(tb_settings))
    /\ tb_pc' = "applied"
    /\ UNCHANGED <<tb_call, tb_before, tb_settings, tb_ret>>
    /\ UNCHANGED <<cs_vars, cc_vars, en_vars>>

\* 3) _convert_na_values writing the marker lists it builds back into the
\* configuration
TbConvertNaValues_storing_markers ==
    /\ tb_pc = "applied"
    /\ tb_data' = convert_to_na(tb_data, get_na_values_dict(tb_settings))
    /\ tb_settings' =
          [tb_settings EXCEPT !._columns =
              [i \in 1..Len(tb_settings._columns) |->
                  [tb_settings._columns[i] EXCEPT !.na_values =
                      IF @ = PyNone THEN @ ELSE PyList(AsValueList(@))]]]
    /\ tb_pc' = "converted"
    /\ UNCHANGED <<tb_call, tb_before, tb_ret>>
    /\ UNCHANGED <<cs_vars, cc_vars, en_vars>>

\* 3) _convert_na_values
TbConvertNaValues ==
    /\ tb_pc = "applied"
    /\ tb_data' = convert_to_na(tb_data, get_na_values_dict(tb_settings))
    /\ tb_pc' = "converted"
    /\ UNCHANGED <<tb_call, tb_before, tb_settings, tb_ret>>
    /\ UNCHANGED <<cs_vars, cc_vars, en_vars>>

\* 4) _fill_na_values returns: the run is over
TbFillNaValues ==
    /\ tb_pc = "converted"
    /\ fill_na_raises(tb_data, get_columns_fill_na_dict(tb_settings)) = PyNone
    /\ tb_data' = fill_na(tb_data, get_columns_fill_na_dict(tb_settings))
    /\ tb_pc' = "filled"
    /\ UNCHANGED <<tb_call, tb_before, tb_settings, tb_ret>>
    /\ UNCHANGED <<cs_vars, cc_vars, en_vars>>

\* 4) _fill_na_values raises at float(fill_value)
TbFillNaValuesRaises ==
    /\ tb_pc = "converted"
    /\ fill_na_raises(tb_data, get_columns_fill_na_dict(tb_settings)) # PyNone
    /\ tb_data' = fill_na(tb_data, get_columns_fill_na_dict(tb_settings))
    /\ tb_ret' = fill_na_raises(tb_data, get_columns_fill_na_dict(tb_settings))
    /\ tb_pc' = "raised"
    /\ UNCHANGED <<tb_call, tb_before, tb_settings>>
    /\ UNCHANGED <<cs_vars, cc_vars, en_vars>>

TbNext ==
    \/ ConvertToNaCall
    \/ ConvertToNaRaises
    \/ DateCall
    \/ DateRaises
    \/ NumericCall
    \/ NumericRaises
    \/ TbSortColumnsAsConfig
    \/ TbSortColumnsRaises
    \/ TbApplyNormMethods
    \/ TbConvertNaValues
    \/ TbFillNaValues
    \/ TbFillNaValuesRaises

\* re.search(pattern, entry) for the patterns of the explored markers
RegexMatches(pattern, entry) ==
    /\ entry.k = "str"
    /\ pattern.v = "x"
    /\ entry.v \in {"x"}

\* the entry equals a literal marker or a pattern marker matches it
IsMarked(entry, values) ==
    \E j \in 1..Len(values) :
        IF values[j].k = "pattern" THEN RegexMatches(values[j], entry)
        ELSE PyEq(entry, values[j])

\* C21: after convert_to_na returns, in every column given markers, whatever its
\* dtype, an entry that was present is missing exactly when it equals a literal
\* marker or a pattern marker matches it, and is unchanged otherwise.
C21_MarkedIffMissing ==
    (tb_pc = "called" /\ tb_call.method = "convert_to_na") =>
        \A j \in 1..Len(tb_call.args.v) :
            LET column == tb_call.args.v[j][1]
                na_values == tb_call.args.v[j][2]
                old == GetColumn(tb_before, column).cells
                new == GetColumn(tb_data, column).cells
            IN na_values # PyNone =>
                  \A i \in 1..Len(old) :
                      old[i] # NA =>
                          /\ (new[i] = NA) <=> IsMarked(old[i], AsValueList(na_values))
                          /\ new[i] # NA => new[i] = old[i]

\* the same for literal markers and columns of a canonical dtype only
ConvertToNaEffect ==
    (tb_pc = "called" /\ tb_call.method = "convert_to_na") =>
        \A j \in 1..Len(tb_call.args.v) :
            LET column == tb_call.args.v[j][1]
                na_values == tb_call.args.v[j][2]
                old == GetColumn(tb_before, column)
                new == GetColumn(tb_data, column).cells
            IN (na_values # PyNone /\ old.dtype \in ALL_DTYPES) =>
                  \A i \in 1..Len(old.cells) :
                      old.cells[i] # NA =>
                          /\ (new[i] = NA) <=> isin(old.cells, AsValueList(na_values))[i]
                          /\ new[i] # NA => new[i] = old.cells[i]

\* two configured columns share an equal call at some step of their pipelines
\* and have different na_values
ShareStepDifferNa(c, d) ==
    /\ c.normalization # PyNone /\ d.normalization # PyNone
    /\ \E i \in 1..Len(c.normalization.v), j \in 1..Len(d.normalization.v) :
          c.normalization.v[i] = d.normalization.v[j]
    /\ c.na_values # d.na_values

\* C22: at the NA-conversion phase of a run, two columns that share an equal
\* call and have different na_values are together in the group of that call,
\* and in every configured column an entry changes only by becoming missing,
\* and only when it matches the na_values of its own column.
C22_OwnNaValuesOnly ==
    [][TbConvertNaValues =>
        LET columns == tb_settings._columns
            plan == group_by_normalization(tb_settings)
        IN /\ \A m, n \in 1..Len(columns) :
                 ShareStepDifferNa(columns[m], columns[n]) =>
                    \A i \in 1..Len(columns[m].normalization.v) :
                       columns[m].normalization.v[i] \in Range(columns[n].normalization.v) =>
                          \E g \in 1..Len(plan) :
                             /\ plan[g][1] = columns[m].normalization.v[i]
                             /\ columns[m].name \in Range(plan[g][2])
                             /\ columns[n].name \in Range(plan[g][2])
           /\ \A m \in 1..Len(columns) :
                 LET old == GetColumn(tb_data, columns[m].name).cells
                     new == GetColumn(tb_data', columns[m].name).cells
                 IN \A i \in 1..Len(old) :
                       new[i] # old[i] =>
                          /\ new[i] = NA
                          /\ columns[m].na_values # PyNone
                          /\ IsMarked(old[i], columns[m].na_values.v)]_vars

\* the conversion has replaced 'NA' in the first column and 'x' in the second,
\* which share the text call, and has kept the marker of the other column
C22_Witness ==
    /\ tb_pc = "converted"
    /\ ShareStepDifferNa(tb_settings._columns[1], tb_settings._columns[2])
    /\ GetColumn(tb_data, TableLabels[1]).cells = <<PyStr("x"), NA>>
    /\ GetColumn(tb_data, TableLabels[2]).cells = <<NA, PyStr("NA")>>

C24_RunIdempotent ==
    (tb_pc = "filled" /\ tb_call.args = PyInt(2)) => tb_data = tb_before

\* the positions <<column, step>> at which the pipelines hold spec
Occurrences(columns, spec) ==
    {p \in (1..Len(columns)) \X (1..MaxSteps) :
        /\ columns[p[1]].normalization # PyNone
        /\ p[2] <= Len(columns[p[1]].normalization.v)
        /\ columns[p[1]].normalization.v[p[2]] = spec}

\* p comes before q when the columns are walked in declaration order and each
\* pipeline in step order
SeenBefore(p, q) == p[1] < q[1] \/ (p[1] = q[1] /\ p[2] < q[2])

\* C25: the plan of group_by_normalization() holds one group per distinct
\* CallSpec of the pipelines, in the order in which the specs are first seen
\* walking the columns in declaration order and each pipeline in step order;
\* the names of a group are in declaration order, once per occurrence; a
\* second call returns an equal plan.
C25_PlanFirstSeenOrder ==
    en_pc = "grouped" =>
        LET columns == en_settings._columns
            plan == en_groups
            ColumnOf(name) == CHOOSE m \in 1..Len(columns) : columns[m].name = name
        IN /\ \A g, h \in 1..Len(plan) : g # h => plan[g][1] # plan[h][1]
           /\ \A g \in 1..Len(plan) : Occurrences(columns, plan[g][1]) # {}
           /\ \A m \in 1..Len(columns) :
                 columns[m].normalization # PyNone =>
                    \A i \in 1..Len(columns[m].normalization.v) :
                       \E g \in 1..Len(plan) : plan[g][1] = columns[m].normalization.v[i]
           /\ \A g, h \in 1..Len(plan) :
                 g < h => \E p \in Occurrences(columns, plan[g][1]) :
                             \A q \in Occurrences(columns, plan[h][1]) : SeenBefore(p, q)
           /\ \A g \in 1..Len(plan) :
                 /\ Len(plan[g][2]) = Cardinality(Occurrences(columns, plan[g][1]))
                 /\ \A m \in 1..Len(columns) :
                       Cardinality({k \in 1..Len(plan[g][2]) : plan[g][2][k] = columns[m].name})
                          = Cardinality({p \in Occurrences(columns, plan[g][1]) : p[1] = m})
                 /\ \A k, l \in 1..Len(plan[g][2]) :
                       k < l => ColumnOf(plan[g][2][k]) <= ColumnOf(plan[g][2][l])
           /\ group_by_normalization(en_settings) = plan

\* the plan of a: (numeric), b: (text, numeric): numeric first with both
\* columns, then text
C25_Witness ==
    /\ en_pc = "grouped"
    /\ Len(en_groups) = 2
    /\ en_groups[1][1].method_name = "numeric"
    /\ en_groups[1][2] = <<PyStr("a"), PyStr("b")>>
    /\ en_groups[2][1].method_name = "text"
    /\ en_groups[2][2] = <<PyStr("b")>>

\* C26: no phase of a run changes the configuration: its columns with their
\* names, aliases, na_values, fill_na, reviews and normalization, and its
\* alias index, are after every step what they were before it, in a run that
\* completes and in a run that a phase aborts.
C26_ConfigurationUnchanged ==
    [][(\/ TbSortColumnsAsConfig
        \/ TbSortColumnsRaises
        \/ TbApplyNormMethods
        \/ TbConvertNaValues
        \/ TbFillNaValues
        \/ TbFillNaValuesRaises) => tb_settings' = tb_settings]_vars

\* the fill phase has aborted a run whose configuration holds markers, after
\* the alignment, the routines and the NA conversion have run
C26_Witness ==
    /\ tb_pc = "raised"
    /\ tb_settings # PyNone
    /\ tb_ret = ValueError
    /\ tb_settings._columns[1].na_values = PyTuple(<<PyStr("NA")>>)
    /\ tb_settings._columns[2].na_values = PyTuple(<<PyStr("x")>>)

\* C27: after date returns, a column that was not temporal holds the attempt
\* with the fewest missing entries among free-form inference followed by every
\* explicit format, the earliest attempt winning ties, inference being an
\* attempt also when formats are given; a column that was temporal keeps its
\* entries.
C27_BestOfInferenceAndFormats ==
    (tb_pc = "called" /\ tb_call.method = "date") =>
        LET columns == Keyword(tb_call.args, "columns", PyNone).v
            formats_list == FormatsList(Keyword(tb_call.args, "formats", PyNone))
        IN \A j \in 1..Len(columns) :
              LET old == GetColumn(tb_before, columns[j])
                  new == GetColumn(tb_data, columns[j])
              IN IF old.dtype \in DATE_DTYPES THEN new.cells = old.cells
                 ELSE new.cells = BestSeries(old.cells, <<Inferred>> \o formats_list,
                                             NA, Len(old.cells) + 1)

\* C28: after numeric(columns, dtype, errors) returns without raising, every
\* listed column holds the requested dtype, for each errors policy 'coerce',
\* 'raise' and 'ignore'.
C28_RequestedDtype ==
    (tb_pc = "called" /\ tb_call.method = "numeric") =>
        LET columns == Keyword(tb_call.args, "columns", PyNone).v
        IN \A j \in 1..Len(columns) :
              GetColumn(tb_data, columns[j]).dtype
                 = Keyword(tb_call.args, "dtype", PyNone).v

\* the number of claims: the sizes of the alias sets of the columns, added up
RECURSIVE ClaimCount(_)
ClaimCount(columns) ==
    IF columns = <<>> THEN 0
    ELSE Cardinality(Head(columns).aliases.v) + ClaimCount(Tail(columns))

\* C29: is_valid() is true exactly when building the alias index dropped no
\* claim, that is when the index has as many keys as the alias sets of the
\* columns have members together; and in a valid configuration looking up an
\* alias of a column returns that column.
C29_ValidIffNoClaimDropped ==
    en_pc = "checked" =>
        LET columns == en_settings._columns
        IN /\ en_ret <=> Cardinality(DOMAIN en_settings._index) = ClaimCount(columns)
           /\ en_ret =>
                 \A i \in 1..Len(columns) :
                    \A alias \in columns[i].aliases.v :
                       __getitem__(en_settings, alias) = columns[i]

\* a valid configuration of two columns, one with an alias besides its name
C29_Witness ==
    /\ en_pc = "checked"
    /\ en_ret = TRUE
    /\ Len(en_settings._columns) = 2
    /\ ClaimCount(en_settings._columns) = 3
    /\ Cardinality(DOMAIN en_settings._index) = 3

\* C30: the alignment loses no column of the table: every column the table
\* had before _sort_columns_as_config is a column of the aligned table, also
\* one whose header is a non-primary alias of a configured column while the
\* column of the primary name is in the table too.
C30_AlignmentKeepsColumns ==
    [][(en_pc = "ready" /\ en_pc' = "sorted") =>
          \A h \in Range(en_headers) :
              \E p \in 1..Len(en_headers') : en_source'[p] = h]_vars

----------------------------------------------------------------------------
(* Specifications *)

\* the ColumnConfig scenario has not started and does not run
CcIdle ==
    /\ cc_pc = "idle"
    /\ cc_args = PyNone
    /\ cc_obj = PyNone
    /\ cc_data = PyNone
    /\ cc_back = PyNone

\* the CallSpec scenario has not started and does not run
CsIdle ==
    /\ cs_pc = "idle"
    /\ cs_method = ""
    /\ cs_params = PyNone
    /\ cs_spec = NoSpec
    /\ cs_variant = "none"
    /\ cs_other = NoSpec
    /\ cs_dict = PyNone

EnIdle ==
    /\ en_pc = "idle"
    /\ en_settings = PyNone
    /\ en_headers = <<>>
    /\ en_source = <<>>
    /\ en_phases = <<>>
    /\ en_plan = <<>>
    /\ en_applied = [name \in Range(ColumnNames) |-> <<>>]
    /\ en_groups = PyNone
    /\ en_key = PyNone
    /\ en_found = PyNone
    /\ en_raw = PyNone
    /\ en_ret = PyNone

TbIdle ==
    /\ tb_pc = "idle"
    /\ tb_call = PyNone
    /\ tb_before = <<>>
    /\ tb_data = <<>>
    /\ tb_settings = PyNone
    /\ tb_ret = PyNone

InitCall == CsInit /\ CcIdle /\ EnIdle /\ TbIdle

SpecCall == InitCall /\ [][CsNext]_vars

InitColumn == CcInit /\ CsIdle /\ EnIdle /\ TbIdle

SpecColumn == InitColumn /\ [][CcNext]_vars

InitConfig == ConfigInit /\ CsIdle /\ CcIdle /\ TbIdle

SpecConfig == InitConfig /\ [][NextConfig]_vars

Init == EnInit /\ CsIdle /\ CcIdle /\ TbIdle

Spec == Init /\ [][Next]_vars

InitTable == TbInit /\ CsIdle /\ CcIdle /\ EnIdle

SpecTable == InitTable /\ [][TbNext]_vars

====
